---- MODULE Spec2Model ----
(***************************************************************************)
(* FlowPilot frontend: the execution page's node-result overlay, the       *)
(* workflow-to-graph builder with its layered layout, the two WebSocket    *)
(* hooks (useLiveExecutionUpdates, useLiveLogs) and the live log viewer.   *)
(*                                                                         *)
(* Eight specifications share this module; each leaves the variables of   *)
(* the other parts at their initial values:                                *)
(*   SpecMerge   the nodeResults useMemo of ExecutionDetailPage            *)
(*   SpecFlow    parseWorkflowToFlow / applyDagreLayout                    *)
(*   Spec        the WebSocket hooks under mount, re-subscription, unmount *)
(*   SpecViewer  LiveLogViewer on top of useLiveLogs                       *)
(*   SpecFollow  LiveLogViewer with scrolling, Resume and export           *)
(*   SpecLayout  parseWorkflowToFlow on acyclic workflows of up to four    *)
(*               nodes, called again by FlowCanvas                         *)
(*   SpecPage    ExecutionDetailPage: both queries, the tabs, both hooks   *)
(*   SpecPageLive  SpecPage with weak fairness, for convergence            *)
(***************************************************************************)
EXTENDS Integers, Sequences, FiniteSets, TLC

\* JavaScript's two "no value" values, kept apart because the code converts
\* one into the other (x ?? undefined).
Null == "null"
Undefined == "undefined"

\* ---------------------------------------------------------------- bounds
MaxHist == 2
MaxNodes == 2      \* workflow nodes in the list given to parseWorkflowToFlow
MaxDeps == 2       \* depends_on entries over the whole list
MaxResults == 2    \* entries of the nodeResults argument
MaxSockets == 2    \* WebSockets created in one run of the hooks
MaxLogId == 2      \* largest logIdCounter when useLiveLogs is used on its own
MaxViewerLogs == 3 \* largest logIdCounter while LiveLogViewer is mounted

\* ------------------------------------------------------------- variables
VARIABLES
  \* ExecutionDetailPage, nodeResults useMemo
  execution,         \* useExecution's data: [loaded, node_executions]
  liveResults,       \* nodeResults of useLiveExecutionUpdates as seen by the page
  pageNodeResults,   \* the memoised merged map ("nodeResults" of the page)
  execStatus,        \* execution?.status (Undefined while there is no data)
  execError,         \* useExecution's error, as a boolean
  workflow,          \* the useWorkflow query: "disabled", "loading", "loaded", "failed"
  activeTab,         \* the activeTab state: "flow" or "logs"
  \* parseWorkflowToFlow
  nodes,             \* argument: WorkflowNode[]
  nodeResultsArg,    \* argument: Record<string, NodeResult> (omitted = empty)
  g,                 \* the dagre graph after dagre.layout(g): nodes, edges, rank, x, y
  flow,              \* return value {nodes, edges}
  flowPc,            \* "input" before the call, "done" after it returned; after a further
                     \* call "repeated" (same arguments) or "updated"
  \* useLiveExecutionUpdates ("updates") and useLiveLogs ("logs")
  mounted,           \* the hooks whose host component is mounted
  executionId,       \* per hook: the argument of the last render (Null = null)
  wsRef,             \* per hook: wsRef.current, a socket number or NoSocket
  isConnected,       \* per hook: the isConnected state
  nodeResults,       \* useLiveExecutionUpdates: the nodeResults state
  logs,              \* useLiveLogs: the logs state
  logIdCounter,      \* useLiveLogs: logIdCounter.current
  sockets,           \* every WebSocket created so far, in creation order
  \* LiveLogViewer
  viewer,            \* TRUE while a LiveLogViewer is mounted
  levelFilter,       \* the levelFilter state (a set of level names)
  searchQuery,       \* the searchQuery state
  filteredLogs,      \* the filteredLogs memo
  autoScroll,        \* the autoScroll state
  scrollTop,         \* parentRef.current.scrollTop, in pixels
  download           \* the file the last step offered for download, if any

pageVars == <<execStatus, execError, workflow, activeTab>>

mergeVars == <<execution, liveResults, pageNodeResults, pageVars>>

flowVars == <<nodes, nodeResultsArg, g, flow, flowPc>>

hookVars ==
  <<mounted, executionId, wsRef, isConnected, nodeResults, logs, logIdCounter, sockets>>

viewerVars ==
  <<viewer, levelFilter, searchQuery, filteredLogs, autoScroll, scrollTop, download>>

vars == <<mergeVars, flowVars, hookVars, viewerVars>>

\* ------------------------------------------------------------ JS helpers
\* x ?? undefined
NullishToUndefined(x) == IF x = Null THEN Undefined ELSE x

\* obj[k] = v on a plain object used as a map
Put(m, k, v) == [x \in DOMAIN m \cup {k} |-> IF x = k THEN v ELSE m[x]]

EmptyMap == [x \in {} |-> Undefined]

\* All sequences over S of length at most n
SeqsUpTo(S, n) == UNION {[1..k -> S] : k \in 0..n}

\* Optional values whose content is not a string: absent is the empty
\* sequence, present a one-element sequence.
None == <<>>
Some(x) == <<x>>

Hooks == {"updates", "logs"}
NoSocket == 0
LogLevels == {"info", "warn", "error", "debug"}

\* ---- the resting state of each part, used by the other specifications --
HooksIdle ==
  /\ mounted = {}
  /\ executionId = [h \in Hooks |-> Null]
  /\ wsRef = [h \in Hooks |-> NoSocket]
  /\ isConnected = [h \in Hooks |-> FALSE]
  /\ nodeResults = EmptyMap
  /\ logs = <<>>
  /\ logIdCounter = 0
  /\ sockets = <<>>

ViewerIdle ==
  /\ viewer = FALSE
  /\ levelFilter = LogLevels
  /\ searchQuery = <<>>
  /\ filteredLogs = <<>>
  /\ autoScroll = TRUE
  /\ scrollTop = 0
  /\ download = None

EmptyGraph == [labelled |-> {}, edges |-> {}, rank |-> EmptyMap, x |-> EmptyMap, y |-> EmptyMap]

FlowIdle ==
  /\ nodes = <<>>
  /\ nodeResultsArg = EmptyMap
  /\ g = EmptyGraph
  /\ flow = [nodes |-> <<>>, edges |-> <<>>]
  /\ flowPc = "input"

PageIdle ==
  /\ execStatus = Undefined
  /\ execError = FALSE
  /\ workflow = "disabled"
  /\ activeTab = "flow"

MergeIdle ==
  /\ PageIdle
  /\ execution = [loaded |-> FALSE, node_executions |-> <<>>]
  /\ liveResults = EmptyMap
  /\ pageNodeResults = EmptyMap

\* ======================================================================
\* Execution State Overlay (ExecutionDetailPage)
\* ======================================================================
OverlayNodeIds == {"A", "B"}
OverlayStatuses == {"running", "completed", "failed"}

\* NodeExecutionResponse as the backend and the WebSocket deliver it; the
\* fields the page does not read (id, node_type, stdout, ...) are left out.
NodeExecutionResponses ==
  {r \in [node_id : OverlayNodeIds, status : OverlayStatuses,
          finished_at : {Null, "t1"}, error : {Null, "boom"}] :
     /\ (r.status = "running") <=> (r.finished_at = Null)
     /\ (r.error # Null) => (r.status = "failed")}

\* The object literal the page builds from one NodeExecutionResponse.
ToNodeResult(nodeExec) ==
  [node_id      |-> nodeExec.node_id,
   status       |-> nodeExec.status,
   completed_at |-> NullishToUndefined(nodeExec.finished_at),
   error        |-> NullishToUndefined(nodeExec.error)]

\* execution?.node_executions?.forEach(...): later array entries overwrite
\* earlier ones with the same node_id.
RECURSIVE AddHistorical(_, _)
AddHistorical(results, execs) ==
  IF execs = <<>> THEN results
  ELSE AddHistorical(Put(results, Head(execs).node_id, ToNodeResult(Head(execs))),
                     Tail(execs))

\* Object.entries(liveResults).forEach(([nodeId, nodeExec]) => ...)
RECURSIVE OverrideWithLive(_, _, _)
OverrideWithLive(results, live, keys) ==
  IF keys = {} THEN results
  ELSE LET nodeId == CHOOSE k \in keys : TRUE
       IN OverrideWithLive(Put(results, nodeId, ToNodeResult(live[nodeId])),
                           live, keys \ {nodeId})

\* A plausible slip: the two passes in the opposite order, so that the
\* historical entry survives.
MergeHistoricalWins(exec, live) ==
  LET fromLive == OverrideWithLive(EmptyMap, live, DOMAIN live)
  IN IF ~exec.loaded THEN fromLive ELSE AddHistorical(fromLive, exec.node_executions)

\* The body of the nodeResults useMemo.
MergeNodeResults(exec, live) ==
  LET fromHist == IF ~exec.loaded THEN EmptyMap
                  ELSE AddHistorical(EmptyMap, exec.node_executions)
  IN OverrideWithLive(fromHist, live, DOMAIN live)

\* useExecution's data: undefined until the fetch resolves (loaded = FALSE),
\* then the ExecutionDetail with its node_executions array.
ExecutionData ==
  {[loaded |-> FALSE, node_executions |-> <<>>]} \cup
  {[loaded |-> TRUE, node_executions |-> a] :
     a \in SeqsUpTo(NodeExecutionResponses, MaxHist)}

\* A plausible slip: the spread of prev is forgotten.
SetNodeResultAlone(prev, nodeExec) == Put(EmptyMap, nodeExec.node_id, nodeExec)

\* setNodeResults((prev) => ({...prev, [nodeExec.node_id]: nodeExec}))
SetNodeResult(prev, nodeExec) == Put(prev, nodeExec.node_id, nodeExec)

\* First render of the page: nothing fetched, no live result.
InitMerge ==
  /\ FlowIdle
  /\ HooksIdle
  /\ ViewerIdle
  /\ PageIdle
  /\ execution = [loaded |-> FALSE, node_executions |-> <<>>]
  /\ liveResults = EmptyMap
  /\ pageNodeResults = MergeNodeResults(execution, liveResults)

\* The execution query resolves (first fetch or a 2 s refetch); the page
\* re-renders and the memo runs on the new execution.node_executions.
ExecutionFetched(data) ==
  /\ data.loaded
  /\ data # execution
  /\ execution' = data
  /\ pageNodeResults' = MergeNodeResults(data, liveResults)
  /\ UNCHANGED <<liveResults, pageVars, flowVars, hookVars, viewerVars>>

\* The hook stores a node execution received on the socket; the page
\* re-renders and the memo runs on the new liveResults.
LiveResultReceived(nodeExec) ==
  /\ liveResults' = SetNodeResult(liveResults, nodeExec)
  /\ liveResults' # liveResults
  /\ pageNodeResults' = MergeNodeResults(execution, liveResults')
  /\ UNCHANGED <<execution, pageVars, flowVars, hookVars, viewerVars>>

NextMerge ==
  \/ \E data \in ExecutionData : ExecutionFetched(data)
  \/ \E nodeExec \in NodeExecutionResponses : LiveResultReceived(nodeExec)

SpecMerge == InitMerge /\ [][NextMerge]_vars

\* ---------------------------------------------------------------- C1
HistoricalIds ==
  {execution.node_executions[i].node_id : i \in 1..Len(execution.node_executions)}

\* The last array entry for a node id: the entry of the "historical map".
LastHistorical(id) ==
  LET arr == execution.node_executions
      i == CHOOSE k \in 1..Len(arr) :
             /\ arr[k].node_id = id
             /\ \A j \in (k+1)..Len(arr) : arr[j].node_id # id
  IN arr[i]

\* An entry of the merged map shows exactly the fields of one source record.
ShowsRecord(entry, rec) ==
  /\ entry.node_id = rec.node_id
  /\ entry.status = rec.status
  /\ entry.completed_at = (IF rec.finished_at = Null THEN Undefined ELSE rec.finished_at)
  /\ entry.error = (IF rec.error = Null THEN Undefined ELSE rec.error)

\* C1: the merged map is the historical map overridden by the live map: a
\* node id of the live map shows the live entry and nothing of the
\* historical one, a node id only in the historical map shows the historical
\* entry unchanged, and the keys are the union of both key sets.
C1_MergeLiveWins ==
    /\ DOMAIN pageNodeResults = HistoricalIds \cup DOMAIN liveResults
    /\ \A id \in DOMAIN liveResults : ShowsRecord(pageNodeResults[id], liveResults[id])
    /\ \A id \in HistoricalIds \ DOMAIN liveResults :
         ShowsRecord(pageNodeResults[id], LastHistorical(id))

\* historical {A: failed "boom", B: completed}, live {A: running}: A shows
\* running without the error, B keeps its historical entry.
C1_Witness ==
  /\ execution.loaded
  /\ HistoricalIds = {"A", "B"}
  /\ LastHistorical("A").status = "failed"
  /\ LastHistorical("A").error = "boom"
  /\ DOMAIN liveResults = {"A"}
  /\ liveResults["A"].status = "running"
  /\ pageNodeResults["A"].status = "running"
  /\ pageNodeResults["A"].error = Undefined
  /\ pageNodeResults["B"].status = "completed"

\* ======================================================================
\* Graph Builder and layout (lib/flowParser.ts)
\* ======================================================================
\* Node ids are strings; they are kept as character sequences because the
\* edge id is built from them by string interpolation.
FlowIds == {<<"a">>, <<"b">>, <<"c">>}
IdOrder == <<(<<"a">>), (<<"b">>), (<<"c">>)>>

NodeStatuses == {"pending", "running", "completed", "failed", "cancelled"}

\* The backend type and the config of a node do not influence edges or
\* layout; each id carries a fixed type and config.
TypeOf(id) ==
  IF id = <<"a">> THEN "shell" ELSE IF id = <<"b">> THEN "file_read" ELSE "custom"
ConfigOf(id) == [command |-> id]

\* getNodeFlowType: typeMap[backendType] || "default"
getNodeFlowType(backendType) ==
  CASE backendType \in {"shell", "http", "condition", "loop", "delay", "parallel", "log"}
         -> backendType
    [] backendType \in {"file_read", "file_write"} -> "file"
    [] backendType \in {"claude_cli", "claude_api"} -> "claude"
    [] OTHER -> "default"

\* A NodeResult of the nodeResults argument.
NodeResultOf(id, status) ==
  [node_id     |-> id,
   status      |-> status,
   duration_ms |-> IF status \in {"completed", "failed"} THEN "100" ELSE Undefined,
   error       |-> IF status = "failed" THEN "boom" ELSE Undefined]

\* The statuses the builder tells apart: running, completed, and one of the
\* others (pending, failed and cancelled are treated alike).
ResultStatuses == {"running", "completed", "failed"}

ResultMaps ==
  UNION {{[id \in D |-> NodeResultOf(id, st[id])] : st \in [D -> ResultStatuses]} :
         D \in {D \in SUBSET FlowIds : Cardinality(D) <= MaxResults}}

\* Node lists: the first node is "a", every later node repeats an id already
\* used or takes the next unused one (lists equal up to renaming behave
\* alike); depends_on entries are arbitrary ids, so they may repeat, name the
\* node itself, form cycles or name an id that is not in the list. An absent
\* depends_on and an empty one behave alike (depends_on?.forEach) and are
\* both the empty sequence here.
RECURSIVE CountDeps(_)
CountDeps(ns) == IF ns = <<>> THEN 0 ELSE Len(Head(ns).depends_on) + CountDeps(Tail(ns))

IdsUsed(ns) == {ns[i].id : i \in 1..Len(ns)}

NextIds(ns) ==
  LET used == IdsUsed(ns)
      fresh == {i \in 1..Len(IdOrder) : IdOrder[i] \notin used}
  IN used \cup (IF fresh = {} THEN {}
                ELSE {IdOrder[CHOOSE i \in fresh : \A j \in fresh : i <= j]})

WorkflowNodeOf(id, deps) ==
  [id |-> id, type |-> TypeOf(id), config |-> ConfigOf(id), depends_on |-> deps]

\* Lists of exactly k nodes holding at most e depends_on entries.
RECURSIVE ListsOfLen(_, _)
ListsOfLen(k, e) ==
  IF k = 0 THEN {<<>>}
  ELSE UNION {{Append(ns, WorkflowNodeOf(id, deps)) :
                 id \in NextIds(ns), deps \in SeqsUpTo(FlowIds, e - CountDeps(ns))} :
              ns \in ListsOfLen(k - 1, e)}

WorkflowInputs == UNION {ListsOfLen(k, MaxDeps) : k \in 0..MaxNodes}

\* ---- parseWorkflowToFlow, first half: flow nodes and edges ------------
\* nodeResults?.[id]?.field
ResultField(results, id, field) ==
  IF id \in DOMAIN results THEN results[id][field] ELSE Undefined

\* A plausible slip: data.nodeType carries the mapped React Flow type.
FlowNodeOfMappedType(node, results) ==
  [id   |-> node.id,
   type |-> getNodeFlowType(node.type),
   data |-> [label       |-> node.id,
             nodeType    |-> getNodeFlowType(node.type),
             status      |-> ResultField(results, node.id, "status"),
             duration_ms |-> ResultField(results, node.id, "duration_ms"),
             error       |-> ResultField(results, node.id, "error"),
             config      |-> node.config]]

\* nodes.map((node) => ({id, type, position: {x: 0, y: 0}, data: {...}}))
FlowNodeOf(node, results) ==
  [id   |-> node.id,
   type |-> getNodeFlowType(node.type),
   data |-> [label       |-> node.id,
             nodeType    |-> node.type,
             status      |-> ResultField(results, node.id, "status"),
             duration_ms |-> ResultField(results, node.id, "duration_ms"),
             error       |-> ResultField(results, node.id, "error"),
             config      |-> node.config]]

\* `${dep}-${node.id}`
EdgeId(dep, nodeId) == dep \o <<"-">> \o nodeId

\* A plausible slip: the status is looked up under the dependent node.
EdgeOfTargetStatus(dep, node, results) ==
  LET isRunning == ResultField(results, node.id, "status") = "running"
      isCompleted == ResultField(results, node.id, "status") = "completed"
  IN [id       |-> EdgeId(dep, node.id),
      source   |-> dep,
      target   |-> node.id,
      animated |-> isRunning,
      style    |-> [stroke |-> IF isCompleted THEN "#22c55e"
                               ELSE IF isRunning THEN "#3b82f6" ELSE "#94a3b8",
                    strokeWidth |-> 2]]

\* The object pushed for one depends_on entry.
EdgeOf(dep, node, results) ==
  LET isRunning == ResultField(results, dep, "status") = "running"
      isCompleted == ResultField(results, dep, "status") = "completed"
  IN [id       |-> EdgeId(dep, node.id),
      source   |-> dep,
      target   |-> node.id,
      animated |-> isRunning,
      style    |-> [stroke |-> IF isCompleted THEN "#22c55e"
                               ELSE IF isRunning THEN "#3b82f6" ELSE "#94a3b8",
                    strokeWidth |-> 2]]

\* node.depends_on?.forEach((dep) => flowEdges.push(...))
RECURSIVE EdgesOfNode(_, _, _)
EdgesOfNode(deps, node, results) ==
  IF deps = <<>> THEN <<>>
  ELSE <<EdgeOf(Head(deps), node, results)>> \o EdgesOfNode(Tail(deps), node, results)

\* A plausible slip: a dependency already seen on the node is skipped.
RECURSIVE DedupDeps(_)
DedupDeps(deps) ==
  IF deps = <<>> THEN <<>>
  ELSE LET rest == DedupDeps(SubSeq(deps, 1, Len(deps) - 1))
           last == deps[Len(deps)]
       IN IF \E i \in 1..Len(rest) : rest[i] = last THEN rest ELSE Append(rest, last)

RECURSIVE FlowEdgesDedup(_, _)
FlowEdgesDedup(ns, results) ==
  IF ns = <<>> THEN <<>>
  ELSE EdgesOfNode(DedupDeps(Head(ns).depends_on), Head(ns), results)
       \o FlowEdgesDedup(Tail(ns), results)

\* nodes.forEach((node) => node.depends_on?.forEach(...))
RECURSIVE FlowEdges(_, _)
FlowEdges(ns, results) ==
  IF ns = <<>> THEN <<>>
  ELSE EdgesOfNode(Head(ns).depends_on, Head(ns), results) \o FlowEdges(Tail(ns), results)

\* ---- applyDagreLayout ------------------------------------------------
nodeWidth == 220
nodeHeight == 80
ranksep == 100
nodesep == 60

\* g.setNode for every flow node, g.setEdge for every flow edge. setEdge
\* creates an endpoint that is not yet a node of g, without a label (dagre
\* then lays it out with width and height 0). The graph is not a multigraph:
\* a repeated (source, target) pair is one edge.
LabelledNodes(fnodes) == {fnodes[i].id : i \in 1..Len(fnodes)}

\* A plausible slip: the edge is handed to dagre back to front.
SetEdgesReversed(fedges) == {<<fedges[i].target, fedges[i].source>> : i \in 1..Len(fedges)}

\* edges.forEach((edge) => g.setEdge(edge.source, edge.target))
SetEdges(fedges) == {<<fedges[i].source, fedges[i].target>> : i \in 1..Len(fedges)}

GraphNodes(fnodes, fedges) ==
  LabelledNodes(fnodes) \cup {e[1] : e \in SetEdges(fedges)} \cup {e[2] : e \in SetEdges(fedges)}

HeightIn(fnodes, v) == IF v \in LabelledNodes(fnodes) THEN nodeHeight ELSE 0

\* ---- dagre.layout(g), rankdir "TB" -----------------------------------
\* dagre is a library; what follows is its documented pipeline as far as
\* the vertical coordinate goes. Self loops are set aside, a feedback arc
\* set found by depth-first search is reversed, and the network simplex
\* ranker assigns ranks: every edge points at least one rank down, the
\* total edge length is minimal, and every connected component keeps a node
\* on the top rank. Where dagre's tie-breaking is not modelled the choice is
\* left open.
NonSelf(E) == {e \in E : e[1] # e[2]}

Reverse(R) == {<<e[2], e[1]>> : e \in R}

Oriented(E, R) == (E \ R) \cup Reverse(R)

FeasibleRanks(V, E) ==
  {r \in [V -> 0..(Cardinality(V) - 1)] : \A e \in E : r[e[2]] >= r[e[1]] + 1}

\* Some ranking is feasible: taking away the nodes without an incoming edge
\* again and again leaves nothing.
RECURSIVE NoCycleAmong(_, _)
NoCycleAmong(S, E) ==
  LET sources == {v \in S : ~\E e \in E : e[2] = v /\ e[1] \in S}
  IN IF S = {} THEN TRUE
     ELSE IF sources = {} THEN FALSE
     ELSE NoCycleAmong(S \ sources, E)

IsAcyclic(V, E) == NoCycleAmong(V, E)

\* Edge sets whose reversal makes the graph acyclic and of which no edge
\* can be left out (the back edges of a depth-first search are such a set).
FeedbackArcSets(V, E) ==
  {R \in SUBSET E :
     /\ IsAcyclic(V, Oriented(E, R))
     /\ \A e \in R : ~IsAcyclic(V, Oriented(E, R \ {e}))}

RECURSIVE TotalLength(_, _)
TotalLength(r, E) ==
  IF E = {} THEN 0
  ELSE LET e == CHOOSE x \in E : TRUE
       IN (r[e[2]] - r[e[1]]) + TotalLength(r, E \ {e})

\* Nodes joined to v by edges in either direction.
RECURSIVE ComponentOf(_, _)
ComponentOf(S, E) ==
  LET more == S \cup {e[2] : e \in {x \in E : x[1] \in S}}
                \cup {e[1] : e \in {x \in E : x[2] \in S}}
  IN IF more = S THEN S ELSE ComponentOf(more, E)

NetworkSimplexRanks(V, E) ==
  LET feasible == FeasibleRanks(V, E)
      anchored == {r \in feasible :
                     \A v \in V : \E u \in ComponentOf({v}, E) : r[u] = 0}
  IN {r \in anchored : \A q \in anchored : TotalLength(r, E) <= TotalLength(q, E)}

DagreRanks(V, E) ==
  UNION {NetworkSimplexRanks(V, Oriented(NonSelf(E), R)) :
         R \in FeedbackArcSets(V, NonSelf(E))}

\* positionY: the layers are stacked top to bottom, each as high as its
\* highest node, ranksep apart; a node sits in the middle of its layer.
LayerHeight(fnodes, V, r, k) ==
  IF \E v \in V : r[v] = k /\ HeightIn(fnodes, v) = nodeHeight THEN nodeHeight ELSE 0

RECURSIVE LayerTop(_, _, _, _)
LayerTop(fnodes, V, r, k) ==
  IF k = 0 THEN 0
  ELSE LayerTop(fnodes, V, r, k - 1) + LayerHeight(fnodes, V, r, k - 1) + ranksep

CenterY(fnodes, V, r, v) ==
  LayerTop(fnodes, V, r, r[v]) + LayerHeight(fnodes, V, r, r[v]) \div 2

\* order and positionX: the nodes of a rank are put in some order and get
\* centres at least half of each width plus nodesep apart. How dagre orders
\* a rank and where it centres or aligns a rank relative to the others is
\* left open: the nodes of a rank are packed from the left in any order, and
\* a rank narrower than the widest one starts at the left edge or any number
\* of half steps to the right of it within the widest rank's extent; the
\* widest ranks start at x = 0 (translateGraph).
WidthIn(fnodes, v) == IF v \in LabelledNodes(fnodes) THEN nodeWidth ELSE 0

Orders(V) ==
  {o \in [1..Cardinality(V) -> V] : \A v \in V : \E i \in 1..Cardinality(V) : o[i] = v}

PlaceIn(o, v) == CHOOSE i \in DOMAIN o : o[i] = v

RECURSIVE WidthBefore(_, _, _, _, _)
WidthBefore(fnodes, r, o, v, i) ==
  IF i = 0 THEN 0
  ELSE WidthBefore(fnodes, r, o, v, i - 1)
       + (IF r[o[i]] = r[v] /\ i < PlaceIn(o, v)
          THEN WidthIn(fnodes, o[i]) + nodesep ELSE 0)

PackedX(fnodes, r, o, v) ==
  WidthBefore(fnodes, r, o, v, Len(o)) + WidthIn(fnodes, v) \div 2

RECURSIVE RankExtent(_, _, _, _)
RankExtent(fnodes, S, r, k) ==
  IF S = {} THEN 0
  ELSE LET v == CHOOSE u \in S : TRUE
       IN (IF r[v] = k THEN WidthIn(fnodes, v) + nodesep ELSE 0)
          + RankExtent(fnodes, S \ {v}, r, k)

halfStep == (nodeWidth + nodesep) \div 2

RankShifts(fnodes, V, r, k) ==
  LET extents == {RankExtent(fnodes, V, r, j) : j \in {r[v] : v \in V}}
      widest == CHOOSE m \in extents : \A n \in extents : n <= m
  IN {i * halfStep : i \in 0..((widest - RankExtent(fnodes, V, r, k)) \div halfStep)}

DagreXs(fnodes, V, r) ==
  LET ranksUsed == {r[v] : v \in V}
      allShifts == UNION {RankShifts(fnodes, V, r, k) : k \in ranksUsed}
      shifts == {sh \in [ranksUsed -> allShifts] :
                   \A k \in ranksUsed : sh[k] \in RankShifts(fnodes, V, r, k)}
  IN {[v \in V |-> sh[r[v]] + PackedX(fnodes, r, o, v)] : o \in Orders(V), sh \in shifts}

LaidOut(fnodes, fedges, r, xs) ==
  LET V == GraphNodes(fnodes, fedges)
  IN [labelled |-> LabelledNodes(fnodes), edges |-> SetEdges(fedges),
      rank |-> r, x |-> xs, y |-> [v \in V |-> CenterY(fnodes, V, r, v)]]

\* layoutedNodes: position = {x: nodeWithPosition.x - nodeWidth / 2,
\*                           y: nodeWithPosition.y - nodeHeight / 2}
WithPosition(fnode, graph) ==
  [id       |-> fnode.id,
   type     |-> fnode.type,
   position |-> [x |-> graph.x[fnode.id] - nodeWidth \div 2,
                 y |-> graph.y[fnode.id] - nodeHeight \div 2],
   data     |-> fnode.data]

applyDagreLayout(fnodes, fedges, graph) ==
  [nodes |-> [i \in 1..Len(fnodes) |-> WithPosition(fnodes[i], graph)],
   edges |-> fedges]

\* ---- the specification of parseWorkflowToFlow ------------------------
InitFlow ==
  /\ MergeIdle
  /\ HooksIdle
  /\ ViewerIdle
  /\ nodes \in WorkflowInputs
  /\ nodeResultsArg \in ResultMaps
  /\ g = EmptyGraph
  /\ flow = [nodes |-> <<>>, edges |-> <<>>]
  /\ flowPc = "input"

parseWorkflowToFlow ==
  /\ flowPc = "input"
  /\ LET flowNodes == [i \in 1..Len(nodes) |-> FlowNodeOf(nodes[i], nodeResultsArg)]
         flowEdges == FlowEdges(nodes, nodeResultsArg)
         V == GraphNodes(flowNodes, flowEdges)
     IN \E r \in DagreRanks(V, SetEdges(flowEdges)) :
        \E xs \in DagreXs(flowNodes, V, r) :
          /\ g' = LaidOut(flowNodes, flowEdges, r, xs)
          /\ flow' = applyDagreLayout(flowNodes, flowEdges, g')
  /\ flowPc' = "done"
  /\ UNCHANGED <<nodes, nodeResultsArg, mergeVars, hookVars, viewerVars>>

NextFlow == parseWorkflowToFlow

SpecFlow == InitFlow /\ [][NextFlow]_vars

\* ---------------------------------------------------------------- C2
SourceStatus(edge) ==
  IF edge.source \in DOMAIN nodeResultsArg THEN nodeResultsArg[edge.source].status
  ELSE "absent"

\* C2: the animated flag and the stroke colour of every produced edge are
\* decided by the status of the edge's source node alone: running gives an
\* animated edge in the progress colour, completed a static edge in the
\* success colour, anything else (also no result) a static neutral edge.
C2_EdgeStyleFromSource ==
  flowPc = "done" =>
    \A i \in 1..Len(flow.edges) :
      LET e == flow.edges[i]
          st == SourceStatus(e)
      IN /\ st = "running" => (e.animated /\ e.style.stroke = "#3b82f6")
         /\ st = "completed" => (~e.animated /\ e.style.stroke = "#22c55e")
         /\ st \notin {"running", "completed"} =>
              (~e.animated /\ e.style.stroke = "#94a3b8")

\* An edge whose source is running and whose target is completed: the edge
\* is animated and blue, the target's status leaves no trace on it.
C2_Witness ==
  /\ flowPc = "done"
  /\ \E i \in 1..Len(flow.edges) :
       LET e == flow.edges[i]
       IN /\ e.source # e.target
          /\ SourceStatus(e) = "running"
          /\ e.target \in DOMAIN nodeResultsArg
          /\ nodeResultsArg[e.target].status = "completed"
          /\ e.animated
          /\ e.style.stroke = "#3b82f6"

\* ---------------------------------------------------------------- C3
\* Number of depends_on entries of the nodes before position i.
RECURSIVE DepsBefore(_)
DepsBefore(i) == IF i <= 1 THEN 0 ELSE DepsBefore(i - 1) + Len(nodes[i - 1].depends_on)

\* C3: one edge per dependency reference, in node order and within a node
\* in depends_on order: the j-th entry d of the i-th node n is the edge
\* d -> n at position (entries of earlier nodes) + j, and there are no
\* other edges.
C3_OneEdgePerReference ==
  flowPc = "done" =>
    /\ Len(flow.edges) = DepsBefore(Len(nodes) + 1)
    /\ \A i \in 1..Len(nodes) : \A j \in 1..Len(nodes[i].depends_on) :
         LET e == flow.edges[DepsBefore(i) + j]
         IN e.source = nodes[i].depends_on[j] /\ e.target = nodes[i].id

\* A node that names the same dependency twice gets two edges, after the
\* edges of no earlier node.
C3_Witness ==
  /\ flowPc = "done"
  /\ Len(nodes) = 2
  /\ Len(nodes[2].depends_on) = 2
  /\ nodes[2].depends_on[1] = nodes[2].depends_on[2]
  /\ Len(flow.edges) = 2

\* ---------------------------------------------------------------- C4
\* The dependency relation of the input list: d -> n for d in n.depends_on.
DependencyPairs ==
  UNION {{<<nodes[i].depends_on[j], nodes[i].id>> : j \in 1..Len(nodes[i].depends_on)} :
         i \in 1..Len(nodes)}

RECURSIVE ReachableFrom(_, _)
ReachableFrom(S, E) ==
  LET more == S \cup {e[2] : e \in {x \in E : x[1] \in S}}
  IN IF more = S THEN S ELSE ReachableFrom(more, E)

HasDependencyCycle ==
  \E e \in DependencyPairs : e[1] \in ReachableFrom({e[2]}, DependencyPairs)

FlowNodeY(id) ==
  LET i == CHOOSE k \in 1..Len(flow.nodes) : flow.nodes[k].id = id
  IN flow.nodes[i].position.y

\* C4: without dependency cycles every produced edge s -> t has the rank of
\* t strictly above the rank of s, and t is drawn strictly lower than s
\* (a larger y) whenever both are nodes of the list.
C4_DependencyAboveDependent ==
  (flowPc = "done" /\ ~HasDependencyCycle) =>
    \A i \in 1..Len(flow.edges) :
      LET e == flow.edges[i]
      IN /\ g.rank[e.target] > g.rank[e.source]
         /\ g.y[e.target] > g.y[e.source]
         /\ (e.source \in IdsUsed(nodes) /\ e.target \in IdsUsed(nodes)) =>
              FlowNodeY(e.target) > FlowNodeY(e.source)

\* An acyclic list with an edge between two of its nodes, laid out.
C4_Witness ==
  /\ flowPc = "done"
  /\ ~HasDependencyCycle
  /\ \E i \in 1..Len(flow.edges) :
       /\ flow.edges[i].source \in IdsUsed(nodes)
       /\ flow.edges[i].target \in IdsUsed(nodes)
       /\ FlowNodeY(flow.edges[i].target) > FlowNodeY(flow.edges[i].source)

\* ======================================================================
\* Live Stream Controller (hooks/useExecutions.ts: useLiveExecutionUpdates,
\* useLiveLogs). The two hooks share connect, disconnect and the effect; they
\* differ in ws.onmessage.
\* ======================================================================
ExecIds == {"e1", "e2"}

\* ---- what the server can send (event.data) ---------------------------
\* text: "garbage" is not JSON (JSON.parse throws), "null" is the JSON null,
\* "object" a JSON object whose members are the other fields; Undefined and
\* None mark a member the object does not have.
WireMessage(text, type, execution_id, timestamp, data) ==
  [text |-> text, type |-> type, execution_id |-> execution_id,
   timestamp |-> timestamp, data |-> data]

LogData(level, message, node_id, node_execution) ==
  [level |-> level, message |-> message, node_id |-> node_id,
   node_execution |-> node_execution]

Garbage == WireMessage("garbage", Undefined, Undefined, Undefined, None)
JsonNull == WireMessage("null", Undefined, Undefined, Undefined, None)
EmptyObject == WireMessage("object", Undefined, Undefined, Undefined, None)

PlainData == LogData(Undefined, None, None, None)
DataWith(nodeExec) == LogData("error", Some(<<"m">>), Some(<<"a">>), Some(nodeExec))

SampleNodeExec ==
  [node_id |-> "A", status |-> "running", finished_at |-> Null, error |-> Null]

\* The node executions the stream carries: a node that runs and completes,
\* and another that fails.
StreamedNodeExecs ==
  {r \in NodeExecutionResponses :
     \/ r.node_id = "A" /\ r.status \in {"running", "completed"}
     \/ r.node_id = "B" /\ r.status = "failed" /\ r.error # Null}

HookMessages ==
  {Garbage, JsonNull, EmptyObject}
  \cup {WireMessage("object", "log", e, "t1", None) : e \in ExecIds}
  \cup {WireMessage("object", "log", Undefined, Undefined, Some(DataWith(SampleNodeExec)))}
  \cup {WireMessage("object", "log", e, "t1", Some(d)) :
          e \in ExecIds, d \in {PlainData} \cup {DataWith(r) : r \in StreamedNodeExecs}}
  \cup {WireMessage("object", t, e, "t1", Some(DataWith(SampleNodeExec))) :
          t \in {"status", "error"}, e \in ExecIds}
  \cup {WireMessage("object", "heartbeat", e, "t1", None) : e \in ExecIds}

\* The server sends on a connection the messages of the execution the
\* connection subscribed to (or messages that carry no execution id).
ServerSends(messages, url) == {m \in messages : m.execution_id \in {Undefined, url}}

\* ---- the WebSocket object ---------------------------------------------
\* readyState: CONNECTING, OPEN, CLOSING as in the WebSocket API; ERRORED is
\* a failed connection whose error event has fired and whose close event is
\* still to come; CLOSED is a socket whose close event has fired.
\* closeCalls counts ws.close() calls; attached tells whether the component
\* instance whose state setters the handlers hold is still mounted.
NewSocket(h, e) ==
  [hook |-> h, url |-> e, readyState |-> "CONNECTING", closeCalls |-> 0,
   attached |-> TRUE]

\* ws.close(): starts the closing handshake of a socket that is connecting
\* or open, and does nothing to a socket that is already closing or closed.
CloseSocket(sock) ==
  [sock EXCEPT !.closeCalls = @ + 1,
               !.readyState = IF @ \in {"CONNECTING", "OPEN"} THEN "CLOSING" ELSE @]

\* ---- connect / disconnect ---------------------------------------------
\* A plausible slip: close() is called but wsRef.current is not cleared.
DisconnectKeepsRef(ref, socks) ==
  IF ref # NoSocket
  THEN [ref |-> ref, sockets |-> [socks EXCEPT ![ref] = CloseSocket(@)]]
  ELSE [ref |-> ref, sockets |-> socks]

\* disconnect: if (wsRef.current) { wsRef.current.close(); wsRef.current = null }
Disconnect(ref, socks) ==
  IF ref # NoSocket
  THEN [ref |-> NoSocket, sockets |-> [socks EXCEPT ![ref] = CloseSocket(@)]]
  ELSE [ref |-> ref, sockets |-> socks]

\* connect: nothing without an execution id; otherwise new WebSocket(wsUrl)
\* and wsRef.current = ws. created = FALSE is the constructor throwing, which
\* the catch swallows before wsRef is written.
Connect(h, e, created, ref, socks) ==
  IF e = Null \/ ~created
  THEN [ref |-> ref, sockets |-> socks]
  ELSE [ref |-> Len(socks) + 1, sockets |-> Append(socks, NewSocket(h, e))]

\* The effect with dependencies [connect, disconnect]: the cleanup of the
\* previous run (when there was one) and then connect() for the new id.
RunEffect(h, e, created, hadEffect) ==
  LET cleaned == IF hadEffect THEN Disconnect(wsRef[h], sockets)
                 ELSE [ref |-> wsRef[h], sockets |-> sockets]
      opened == Connect(h, e, created, cleaned.ref, cleaned.sockets)
  IN /\ wsRef' = [wsRef EXCEPT ![h] = opened.ref]
     /\ sockets' = opened.sockets
     /\ executionId' = [executionId EXCEPT ![h] = e]

\* The host component mounts with executionId = e.
MountHook(h, e, created) ==
  /\ h \notin mounted
  /\ (e # Null /\ created) => Len(sockets) < MaxSockets
  /\ mounted' = mounted \cup {h}
  /\ RunEffect(h, e, created, FALSE)
  /\ UNCHANGED <<isConnected, nodeResults, logs, logIdCounter>>

\* The host re-renders the hook with another executionId (null included):
\* connect is a new callback, so the effect is cleaned up and run again.
\* The hook's state (nodeResults, logs, isConnected) is kept.
ChangeExecutionId(h, e, created) ==
  /\ h \in mounted
  /\ e # executionId[h]
  /\ (e # Null /\ created) => Len(sockets) < MaxSockets
  /\ RunEffect(h, e, created, TRUE)
  /\ UNCHANGED <<mounted, isConnected, nodeResults, logs, logIdCounter>>

\* The host component unmounts: the cleanup runs and the hook's state is
\* gone; the handlers of its sockets keep setters that no longer do anything.
UnmountHook(h) ==
  /\ h \in mounted
  /\ LET cleaned == Disconnect(wsRef[h], sockets)
     IN /\ wsRef' = [wsRef EXCEPT ![h] = NoSocket]
        /\ sockets' = [i \in 1..Len(sockets) |->
                         IF cleaned.sockets[i].hook = h
                         THEN [cleaned.sockets[i] EXCEPT !.attached = FALSE]
                         ELSE cleaned.sockets[i]]
  /\ mounted' = mounted \ {h}
  /\ executionId' = [executionId EXCEPT ![h] = Null]
  /\ isConnected' = [isConnected EXCEPT ![h] = FALSE]
  /\ nodeResults' = IF h = "updates" THEN EmptyMap ELSE nodeResults
  /\ logs' = IF h = "logs" THEN <<>> ELSE logs
  /\ logIdCounter' = IF h = "logs" THEN 0 ELSE logIdCounter

\* ---- the handlers ------------------------------------------------------
\* setIsConnected(v) of the socket's component, if that is still mounted.
SetIsConnected(s, v) ==
  IF sockets[s].attached THEN [isConnected EXCEPT ![sockets[s].hook] = v]
  ELSE isConnected

\* ws.onopen
OnOpen(s) ==
  /\ s \in 1..Len(sockets)
  /\ sockets[s].readyState = "CONNECTING"
  /\ sockets' = [sockets EXCEPT ![s].readyState = "OPEN"]
  /\ isConnected' = SetIsConnected(s, TRUE)
  /\ UNCHANGED <<mounted, executionId, wsRef, nodeResults, logs, logIdCounter>>

\* ws.onerror: the connection failed (also possible while it is being
\* closed); the close event follows.
OnError(s) ==
  /\ s \in 1..Len(sockets)
  /\ sockets[s].readyState \in {"CONNECTING", "OPEN", "CLOSING"}
  /\ sockets' = [sockets EXCEPT ![s].readyState = "ERRORED"]
  /\ isConnected' = SetIsConnected(s, FALSE)
  /\ UNCHANGED <<mounted, executionId, wsRef, nodeResults, logs, logIdCounter>>

\* A plausible slip: when the socket the hook holds closes, the hook
\* connects again.
OnCloseReconnects(s) ==
  /\ s \in 1..Len(sockets)
  /\ sockets[s].readyState \in {"OPEN", "CLOSING", "ERRORED"}
  /\ LET h == sockets[s].hook
         closed == [sockets EXCEPT ![s].readyState = "CLOSED"]
     IN IF wsRef[h] = s /\ sockets[s].attached /\ Len(sockets) < MaxSockets
        THEN /\ sockets' = Append(closed, NewSocket(h, sockets[s].url))
             /\ wsRef' = [wsRef EXCEPT ![h] = Len(sockets) + 1]
        ELSE /\ sockets' = closed
             /\ UNCHANGED wsRef
  /\ isConnected' = SetIsConnected(s, FALSE)
  /\ UNCHANGED <<mounted, executionId, nodeResults, logs, logIdCounter>>

\* ws.onclose: the server closed an open connection, the closing handshake
\* started by close() finished, or a failed connection was shut.
OnClose(s) ==
  /\ s \in 1..Len(sockets)
  /\ sockets[s].readyState \in {"OPEN", "CLOSING", "ERRORED"}
  /\ sockets' = [sockets EXCEPT ![s].readyState = "CLOSED"]
  /\ isConnected' = SetIsConnected(s, FALSE)
  /\ UNCHANGED <<mounted, executionId, wsRef, nodeResults, logs, logIdCounter>>

\* useLiveExecutionUpdates, ws.onmessage: the new nodeResults. JSON.parse
\* throwing, message being null and message.data being undefined all end in
\* the catch.
UpdatesOnMessage(prev, m) ==
  IF m.text # "object" THEN prev
  ELSE IF m.type # "log" THEN prev
  ELSE IF m.data = None THEN prev
  ELSE IF m.data[1].node_execution = None THEN prev
  ELSE SetNodeResult(prev, m.data[1].node_execution[1])

\* The LogEntry object literal of useLiveLogs.
LogEntryOf(counter, m) ==
  LET data == m.data[1]
  IN [id           |-> <<"log", counter>>,
      level        |-> IF data.level = Undefined THEN "info" ELSE data.level,
      message      |-> IF data.message = None THEN <<>> ELSE data.message[1],
      timestamp    |-> m.timestamp,
      node_id      |-> data.node_id,
      execution_id |-> m.execution_id]

\* A plausible slip: the new entry is put in front.
PrependLog(prev, logEntry) == <<logEntry>> \o prev

\* setLogs((prev) => [...prev, logEntry])
AppendLog(prev, logEntry) == Append(prev, logEntry)

\* useLiveLogs, ws.onmessage: the new logs and logIdCounter. The id is the
\* first member of the literal, so logIdCounter.current++ has happened when
\* data.level throws on a message without data.
LogsOnMessage(prev, counter, m) ==
  IF m.text # "object" THEN [logs |-> prev, logIdCounter |-> counter]
  ELSE IF m.type # "log" THEN [logs |-> prev, logIdCounter |-> counter]
  ELSE IF m.data = None THEN [logs |-> prev, logIdCounter |-> counter + 1]
  ELSE [logs |-> AppendLog(prev, LogEntryOf(counter, m)), logIdCounter |-> counter + 1]

\* ws.onmessage of either hook. Messages are delivered to an open socket
\* only; maxId bounds logIdCounter and with it the log list.
OnMessage(s, m, maxId) ==
  /\ s \in 1..Len(sockets)
  /\ sockets[s].readyState = "OPEN"
  /\ IF ~sockets[s].attached
     THEN UNCHANGED <<nodeResults, logs, logIdCounter>>
     ELSE IF sockets[s].hook = "updates"
     THEN /\ nodeResults' = UpdatesOnMessage(nodeResults, m)
          /\ UNCHANGED <<logs, logIdCounter>>
     ELSE /\ logIdCounter < maxId
          /\ LET after == LogsOnMessage(logs, logIdCounter, m)
             IN /\ logs' = after.logs
                /\ logIdCounter' = after.logIdCounter
          /\ UNCHANGED nodeResults
  /\ UNCHANGED <<mounted, executionId, wsRef, isConnected, sockets>>

\* A plausible slip: the counter is reset and the list is kept.
ClearLogsCounterOnly ==
  /\ "logs" \in mounted
  /\ logIdCounter' = 0
  /\ UNCHANGED <<logs, mounted, executionId, wsRef, isConnected, nodeResults, sockets>>

\* clearLogs of useLiveLogs
ClearLogs ==
  /\ "logs" \in mounted
  /\ logs' = <<>>
  /\ logIdCounter' = 0
  /\ UNCHANGED <<mounted, executionId, wsRef, isConnected, nodeResults, sockets>>

\* ---- the hooks on their own -------------------------------------------
otherThanHooks == <<mergeVars, flowVars, viewerVars>>

Init ==
  /\ MergeIdle
  /\ FlowIdle
  /\ ViewerIdle
  /\ HooksIdle

\* One host component at a time uses one of the hooks.
Mount(h, e, created) ==
  /\ mounted = {}
  /\ MountHook(h, e, created)
  /\ UNCHANGED otherThanHooks

Rerender(h, e, created) == ChangeExecutionId(h, e, created) /\ UNCHANGED otherThanHooks

Unmount(h) == UnmountHook(h) /\ UNCHANGED otherThanHooks

WsOpen(s) == OnOpen(s) /\ UNCHANGED otherThanHooks

WsMessage(s, m) ==
  /\ s \in 1..Len(sockets)
  /\ m \in ServerSends(HookMessages, sockets[s].url)
  /\ OnMessage(s, m, MaxLogId)
  /\ UNCHANGED otherThanHooks

WsError(s) == OnError(s) /\ UNCHANGED otherThanHooks

WsClose(s) == OnClose(s) /\ UNCHANGED otherThanHooks

CallClearLogs == ClearLogs /\ UNCHANGED otherThanHooks

Next ==
  \/ \E h \in Hooks, e \in ExecIds \cup {Null}, created \in BOOLEAN : Mount(h, e, created)
  \/ \E h \in Hooks, e \in ExecIds \cup {Null}, created \in BOOLEAN : Rerender(h, e, created)
  \/ \E h \in Hooks : Unmount(h)
  \/ \E s \in 1..MaxSockets : WsOpen(s)
  \/ \E s \in 1..MaxSockets, m \in HookMessages : WsMessage(s, m)
  \/ \E s \in 1..MaxSockets : WsError(s)
  \/ \E s \in 1..MaxSockets : WsClose(s)
  \/ CallClearLogs

Spec == Init /\ [][Next]_vars

\* ---- claims about the hooks ---------------------------------------------
\* disconnect() has called close() on socket s.
TornDown(s) == s \in 1..Len(sockets) /\ sockets[s].closeCalls > 0

\* One of the four handlers of socket s runs in this step.
HandlerRuns(s) ==
  \/ OnOpen(s)
  \/ OnError(s)
  \/ OnClose(s)
  \/ \E m \in HookMessages : OnMessage(s, m, MaxLogId)

\* C5: once a subscription has been torn down (id changed, id became null or
\* the component unmounted), no handler of its connection changes
\* nodeResults, logs or isConnected.
C5_NoUpdateAfterTeardown ==
  [][\A s \in 1..MaxSockets :
       (TornDown(s) /\ HandlerRuns(s)) => UNCHANGED <<nodeResults, logs, isConnected>>]_vars

\* The socket some mounted hook currently holds in wsRef.
IsCurrent(s) == \E h \in mounted : wsRef[h] = s

\* C6: every socket a hook opened has had close() called on it exactly once
\* as soon as the hook has let go of it (and not before), and disconnect
\* without a current socket changes nothing.
C6_ClosedExactlyOnce ==
  /\ \A s \in 1..Len(sockets) :
       sockets[s].closeCalls = IF IsCurrent(s) THEN 0 ELSE 1
  /\ Disconnect(NoSocket, sockets) = [ref |-> NoSocket, sockets |-> sockets]

\* C6 witness: the server had closed the first socket before the hook let go
\* of it, the hook has closed it once and holds a second socket.
C6_Witness ==
  /\ Len(sockets) = 2
  /\ sockets[1].readyState = "CLOSED"
  /\ sockets[1].closeCalls = 1
  /\ \E h \in mounted : wsRef[h] = 2 /\ sockets[2].hook = h /\ sockets[1].hook = h
  /\ sockets[2].readyState = "OPEN"

\* A payload that is not JSON, or JSON that lacks a field of the envelope
\* {type, execution_id, timestamp, data}.
Malformed(m) ==
  \/ m.text # "object"
  \/ m.type = Undefined
  \/ m.execution_id = Undefined
  \/ m.timestamp = Undefined
  \/ m.data = None

\* C7: a malformed message leaves nodeResults, logs and isConnected as they
\* were.
C7_MalformedDropped ==
  [][\A s \in 1..MaxSockets : \A m \in HookMessages :
       (Malformed(m) /\ OnMessage(s, m, MaxLogId))
         => UNCHANGED <<nodeResults, logs, isConnected>>]_vars

IsPrefix(a, b) == Len(a) <= Len(b) /\ SubSeq(b, 1, Len(a)) = a

\* A log envelope: what useLiveLogs turns into an entry.
LogEnvelope(m) == m.text = "object" /\ m.type = "log" /\ m.data # None

\* C8: until clearLogs (or the unmount that discards the state) every step
\* keeps the log sequence as a prefix of the next one; a delivered log
\* envelope puts exactly one entry, built from it, at the end, and any other
\* message leaves the sequence as it was.
C8_LogsAppendOnly ==
  [][/\ (ClearLogs \/ "logs" \notin mounted' \/ IsPrefix(logs, logs'))
     /\ \A s \in 1..MaxSockets : \A m \in HookMessages :
          (OnMessage(s, m, MaxLogId) /\ sockets[s].hook = "logs" /\ sockets[s].attached)
            => IF LogEnvelope(m)
               THEN logs' = logs \o <<LogEntryOf(logIdCounter, m)>>
               ELSE logs' = logs]_vars

\* C8 witness: two different envelopes were delivered one after the other
\* and are held in that order.
C8_Witness ==
  /\ "logs" \in mounted
  /\ Len(logs) = 2
  /\ logs[1].id = <<"log", 0>>
  /\ logs[2].id = <<"log", 1>>
  /\ logs[1].level = "info"
  /\ logs[2].level = "error"

\* ======================================================================
\* Log Stream Viewer (components/executions/LiveLogViewer.tsx)
\* ======================================================================
\* Strings are sequences of characters; the alphabet has two letters in both
\* cases.
LowerOf(c) == CASE c = "A" -> "a" [] c = "B" -> "b" [] OTHER -> c

\* String.prototype.toLowerCase
ToLowerCase(str) == [i \in 1..Len(str) |-> LowerOf(str[i])]

\* String.prototype.includes
Includes(str, search) ==
  \E i \in 0..(Len(str) - Len(search)) : SubSeq(str, i + 1, i + Len(search)) = search

\* A plausible slip: the comparison without toLowerCase.
PassesFilterCaseSensitive(log, levels, q) ==
  IF log.level \notin levels THEN FALSE
  ELSE IF q # <<>>
  THEN \/ Includes(log.message, q)
       \/ (log.node_id # None /\ Includes(log.node_id[1], q))
  ELSE TRUE

\* The callback of logs.filter: log.node_id?.toLowerCase().includes(query)
\* is undefined, so falsy, for an entry without node_id.
PassesFilter(log, levels, q) ==
  IF log.level \notin levels THEN FALSE
  ELSE IF q # <<>>
  THEN LET query == ToLowerCase(q)
       IN \/ Includes(ToLowerCase(log.message), query)
          \/ (log.node_id # None /\ Includes(ToLowerCase(log.node_id[1]), query))
  ELSE TRUE

\* logs.filter(...)
FilterLogs(ls, levels, q) == SelectSeq(ls, LAMBDA log : PassesFilter(log, levels, q))

\* A plausible slip: logs is missing from the dependency array.
MemoizedWithoutLogs(cached, oldDeps, newDeps) ==
  IF oldDeps[2] = newDeps[2] /\ oldDeps[3] = newDeps[3] THEN cached
  ELSE FilterLogs(newDeps[1], newDeps[2], newDeps[3])

\* useMemo(..., [logs, levelFilter, searchQuery]): the cached list while the
\* dependencies are what they were, a new computation otherwise.
Memoized(cached, oldDeps, newDeps) ==
  IF oldDeps = newDeps THEN cached
  ELSE FilterLogs(newDeps[1], newDeps[2], newDeps[3])

\* ---- the scroll container ----------------------------------------------
\* estimateSize: () => 24
rowSize == 24

\* parent.clientHeight: the height of the log pane, which fits one row and a
\* part of the next.
ViewportHeight == 30

\* The tolerance of handleScroll.
bottomTolerance == 10

\* virtualizer.getTotalSize() for count rows
TotalSize(count) == count * rowSize

\* parent.scrollHeight: the content, or the pane itself when the content is
\* shorter (the placeholder shown for an empty list fills the pane).
ScrollHeight(count) ==
  IF TotalSize(count) > ViewportHeight THEN TotalSize(count) ELSE ViewportHeight

\* The largest scrollTop the browser allows.
MaxScrollTop(count) == ScrollHeight(count) - ViewportHeight

\* Math.abs(parent.scrollHeight - parent.scrollTop - parent.clientHeight) < 10
AtBottom(count, top) ==
  LET d == ScrollHeight(count) - top - ViewportHeight
  IN (IF d < 0 THEN -d ELSE d) < bottomTolerance

\* virtualizer.scrollToIndex(count - 1): the last row is aligned with the
\* end of the pane.
ScrollToLast(count) == MaxScrollTop(count)

\* A plausible slip: the effect scrolls whatever autoScroll says.
AutoScrollEffectAlways(effectRuns, auto, count, top) ==
  IF effectRuns /\ count > 0 THEN ScrollToLast(count) ELSE top

\* useEffect(() => { if (autoScroll && filteredLogs.length > 0)
\*   virtualizer.scrollToIndex(filteredLogs.length - 1) },
\*   [filteredLogs.length, autoScroll, virtualizer]): the new scrollTop.
AutoScrollEffect(effectRuns, auto, count, top) ==
  IF effectRuns /\ auto /\ count > 0 THEN ScrollToLast(count) ELSE top

\* The render that follows a state change, the handler having left autoScroll
\* at auto and scrollTop at top. filteredLogs is recomputed; the browser
\* pulls a scrollTop beyond the new content back, which is a scroll event
\* and so runs handleScroll; then the auto-scroll effect runs if one of its
\* dependencies changed. Nothing is offered for download.
RenderAfter(auto, top) ==
  LET shown == Memoized(filteredLogs, <<logs, levelFilter, searchQuery>>,
                        <<logs', levelFilter', searchQuery'>>)
      count == Len(shown)
      clamped == IF top > MaxScrollTop(count) THEN MaxScrollTop(count) ELSE top
      auto1 == IF clamped # top THEN AtBottom(count, clamped) ELSE auto
      effectRuns == count # Len(filteredLogs) \/ auto1 # autoScroll
  IN /\ filteredLogs' = shown
     /\ autoScroll' = auto1
     /\ scrollTop' = AutoScrollEffect(effectRuns, auto1, count, clamped)
     /\ download' = None

\* The render that follows a change of logs, levelFilter or searchQuery.
Render == RenderAfter(autoScroll, scrollTop)

\* What the server streams to the viewer: a payload that is not JSON, and
\* log envelopes of the execution with either level (info by default), two
\* messages, with and without node id.
ViewerExecutionId == "e1"

ViewerLogData ==
  {LogData(Undefined, Some(<<"A", "b">>), None, None),
   LogData(Undefined, Some(<<"b">>), None, None),
   LogData("error", Some(<<"b">>), Some(<<"a">>), None),
   LogData("error", Some(<<"A", "b">>), None, None)}

ViewerMessages ==
  {Garbage}
  \cup {WireMessage("object", "log", ViewerExecutionId, "t1", Some(d)) : d \in ViewerLogData}

\* What can be typed into the search box.
Queries == {<<>>, <<"a">>, <<"B">>, <<"a", "B">>}

otherThanViewer == <<mergeVars, flowVars>>

\* LiveLogViewer mounted: all four levels, no query, and
\* useLiveLogs(isRunning ? executionId : null) has run its effect.
InitViewer ==
  /\ MergeIdle
  /\ FlowIdle
  /\ viewer = TRUE
  /\ levelFilter = LogLevels
  /\ searchQuery = <<>>
  /\ filteredLogs = <<>>
  /\ autoScroll = TRUE
  /\ scrollTop = 0
  /\ download = None
  /\ mounted = {"logs"}
  /\ isConnected = [h \in Hooks |-> FALSE]
  /\ nodeResults = EmptyMap
  /\ logs = <<>>
  /\ logIdCounter = 0
  /\ \E isRunning \in BOOLEAN :
       LET e == IF isRunning THEN ViewerExecutionId ELSE Null
           opened == Connect("logs", e, TRUE, NoSocket, <<>>)
       IN /\ executionId = [h \in Hooks |-> IF h = "logs" THEN e ELSE Null]
          /\ wsRef = [h \in Hooks |-> IF h = "logs" THEN opened.ref ELSE NoSocket]
          /\ sockets = opened.sockets

\* toggleLevel(level)
toggleLevel(level) ==
  /\ viewer
  /\ levelFilter' = IF level \in levelFilter THEN levelFilter \ {level}
                    ELSE levelFilter \cup {level}
  /\ UNCHANGED <<searchQuery, viewer, hookVars, otherThanViewer>>
  /\ Render

\* setSearchQuery(e.target.value), and the clear button's setSearchQuery("")
setSearchQuery(q) ==
  /\ viewer
  /\ q # searchQuery
  /\ searchQuery' = q
  /\ UNCHANGED <<levelFilter, viewer, hookVars, otherThanViewer>>
  /\ Render

\* The execution has finished: the parent re-renders the viewer with
\* isRunning = false, so the hook is called with null.
ViewerStopsRunning ==
  /\ viewer
  /\ ChangeExecutionId("logs", Null, TRUE)
  /\ UNCHANGED <<levelFilter, searchQuery, viewer, otherThanViewer>>
  /\ Render

ViewerWsOpen(s) ==
  /\ OnOpen(s)
  /\ UNCHANGED <<levelFilter, searchQuery, viewer, otherThanViewer>>
  /\ Render

ViewerWsMessage(s, m) ==
  /\ s \in 1..Len(sockets)
  /\ m \in ServerSends({m}, sockets[s].url)
  /\ OnMessage(s, m, MaxViewerLogs)
  /\ UNCHANGED <<levelFilter, searchQuery, viewer, otherThanViewer>>
  /\ Render

ViewerWsError(s) ==
  /\ OnError(s)
  /\ UNCHANGED <<levelFilter, searchQuery, viewer, otherThanViewer>>
  /\ Render

ViewerWsClose(s) ==
  /\ OnClose(s)
  /\ UNCHANGED <<levelFilter, searchQuery, viewer, otherThanViewer>>
  /\ Render

\* The viewer unmounts (the user leaves the logs tab) and its state is gone.
ViewerUnmount ==
  /\ viewer
  /\ UnmountHook("logs")
  /\ viewer' = FALSE
  /\ levelFilter' = LogLevels
  /\ searchQuery' = <<>>
  /\ filteredLogs' = <<>>
  /\ autoScroll' = TRUE
  /\ scrollTop' = 0
  /\ download' = None
  /\ UNCHANGED otherThanViewer

NextViewer ==
  \/ \E level \in LogLevels : toggleLevel(level)
  \/ \E q \in Queries : setSearchQuery(q)
  \/ ViewerStopsRunning
  \/ \E s \in 1..MaxSockets : ViewerWsOpen(s)
  \/ \E s \in 1..MaxSockets, m \in ViewerMessages : ViewerWsMessage(s, m)
  \/ \E s \in 1..MaxSockets : ViewerWsError(s)
  \/ \E s \in 1..MaxSockets : ViewerWsClose(s)
  \/ ViewerUnmount

SpecViewer == InitViewer /\ [][NextViewer]_vars

\* ---- claims about the viewer --------------------------------------------
\* The same letter, in either case.
SameLetter(c, d) == c = d \/ {c, d} \in {{"a", "A"}, {"b", "B"}}

\* needle occurs in hay when case is ignored.
ContainsIgnoringCase(hay, needle) ==
  \E i \in 1..(Len(hay) - Len(needle) + 1) :
    \A k \in 1..Len(needle) : SameLetter(hay[i + k - 1], needle[k])

\* The entry is to be displayed under the current level set and query.
Selected(log) ==
  /\ log.level \in levelFilter
  /\ \/ searchQuery = <<>>
     \/ ContainsIgnoringCase(log.message, searchQuery)
     \/ (log.node_id # None /\ ContainsIgnoringCase(log.node_id[1], searchQuery))

SelectedIndices == {i \in 1..Len(logs) : Selected(logs[i])}

\* The k-th smallest selected index.
NthSelected(k) ==
  CHOOSE i \in SelectedIndices : Cardinality({j \in SelectedIndices : j <= i}) = k

LevelsOf(ls) == [i \in 1..Len(ls) |-> ls[i].level]

\* C9: the displayed list is the subsequence, in order, of the entries of
\* logs whose level is selected and which the query matches (empty query, or
\* case-insensitive substring of message or node id); levels {error} over
\* [info, error, info] displays the error entry alone.
C9_DisplayedIsSelectedSubsequence ==
  viewer =>
    /\ Len(filteredLogs) = Cardinality(SelectedIndices)
    /\ \A k \in 1..Len(filteredLogs) : filteredLogs[k] = logs[NthSelected(k)]
    /\ (levelFilter = {"error"} /\ searchQuery = <<>>
        /\ LevelsOf(logs) = <<"info", "error", "info">>)
         => filteredLogs = <<logs[2]>>

\* C9 witness: the scenario.
C9_Witness ==
  /\ viewer
  /\ levelFilter = {"error"}
  /\ searchQuery = <<>>
  /\ LevelsOf(logs) = <<"info", "error", "info">>
  /\ Len(filteredLogs) = 1

\* C10: after every step the displayed list is the current predicate applied
\* to the whole of logs; a step that changes the level set or the query
\* leaves logs as it was; and a step that appends under an unchanged filter
\* adds to the displayed list exactly the filtered new entries.
C10_FilterCommutesWithAppend ==
  [][viewer' =>
      /\ filteredLogs' = FilterLogs(logs', levelFilter', searchQuery')
      /\ (levelFilter' # levelFilter \/ searchQuery' # searchQuery) => logs' = logs
      /\ (viewer /\ IsPrefix(logs, logs') /\ levelFilter' = levelFilter
          /\ searchQuery' = searchQuery)
           => filteredLogs' =
                filteredLogs \o FilterLogs(SubSeq(logs', Len(logs) + 1, Len(logs')),
                                           levelFilter, searchQuery)]_vars

\* C10 witness: with a narrowed level set and a query in place, entries have
\* been appended and some of them, not all, are displayed.
C10_Witness ==
  /\ viewer
  /\ levelFilter # LogLevels
  /\ searchQuery # <<>>
  /\ Len(logs) = 3
  /\ Len(filteredLogs) \in {1, 2}
  /\ logs[3] = filteredLogs[Len(filteredLogs)]

\* ======================================================================
\* Log Stream Viewer: scrolling, Resume and Export
\* ======================================================================
\* Where the user can leave the scroll bar: the top, 12 pixels down, within
\* the tolerance of the bottom, the bottom.
ScrollPositions(count) ==
  {p \in {0, 12, MaxScrollTop(count) - 5, MaxScrollTop(count)} :
     0 <= p /\ p <= MaxScrollTop(count)}

\* onScroll={handleScroll}: the user has moved the pane to scrollTop = p.
handleScroll(p) ==
  /\ viewer
  /\ p \in ScrollPositions(Len(filteredLogs))
  /\ p # scrollTop
  /\ UNCHANGED <<levelFilter, searchQuery, viewer, hookVars, otherThanViewer>>
  /\ RenderAfter(AtBottom(Len(filteredLogs), p), p)

\* The Resume button, rendered while !autoScroll && filteredLogs.length > 0:
\* setAutoScroll(true); virtualizer.scrollToIndex(filteredLogs.length - 1)
ResumeClicked ==
  /\ viewer
  /\ ~autoScroll
  /\ Len(filteredLogs) > 0
  /\ UNCHANGED <<levelFilter, searchQuery, viewer, hookVars, otherThanViewer>>
  /\ RenderAfter(TRUE, ScrollToLast(Len(filteredLogs)))

\* log.level.toUpperCase()
LevelToUpperCase(level) ==
  CASE level = "info" -> "INFO"
    [] level = "warn" -> "WARN"
    [] level = "error" -> "ERROR"
    [] level = "debug" -> "DEBUG"
    [] OTHER -> level

\* `${log.timestamp} [${log.level.toUpperCase()}] ${log.node_id ?
\*   `[${log.node_id}] ` : ""}${log.message}`: timestamp, level and the
\* punctuation are single tokens, node id and message are their characters.
ExportLine(log) ==
  <<log.timestamp, " [", LevelToUpperCase(log.level), "] ">>
  \o (IF log.node_id # None /\ log.node_id[1] # <<>>
      THEN <<"[">> \o log.node_id[1] \o <<"] ">>
      ELSE <<>>)
  \o log.message

\* Array.prototype.join
RECURSIVE Join(_, _)
Join(strs, sep) ==
  IF strs = <<>> THEN <<>>
  ELSE IF Len(strs) = 1 THEN strs[1]
  ELSE strs[1] \o <<sep>> \o Join(Tail(strs), sep)

\* filteredLogs.map(...).join("\n")
ExportContent(shown) ==
  Join([i \in 1..Len(shown) |-> ExportLine(shown[i])], "\n")

\* `execution-${executionId}-logs.txt`
ExportFileName(id) == <<"execution-", id, "-logs.txt">>

\* exportLogs: the Blob's text and a.download; no state is set.
exportLogs ==
  /\ viewer
  /\ download' = Some([download |-> ExportFileName(ViewerExecutionId),
                       content |-> ExportContent(filteredLogs)])
  /\ UNCHANGED <<levelFilter, searchQuery, filteredLogs, autoScroll, scrollTop,
                 viewer, hookVars, otherThanViewer>>

\* What the server streams in these runs: an info entry without node id, an
\* error entry with node id, and an error entry whose message has two lines.
FollowLogData ==
  {LogData(Undefined, Some(<<"A", "b">>), None, None),
   LogData("error", Some(<<"b">>), Some(<<"a">>), None),
   LogData("error", Some(<<"A", "\n", "b">>), None, None)}

FollowMessages ==
  {WireMessage("object", "log", ViewerExecutionId, "t1", Some(d)) : d \in FollowLogData}

FollowLevels == {"info", "error"}

FollowQueries == {<<>>, <<"a">>}

NextFollow ==
  \/ \E level \in FollowLevels : toggleLevel(level)
  \/ \E q \in FollowQueries : setSearchQuery(q)
  \/ ViewerStopsRunning
  \/ \E s \in 1..MaxSockets : ViewerWsOpen(s)
  \/ \E s \in 1..MaxSockets, m \in FollowMessages : ViewerWsMessage(s, m)
  \/ \E s \in 1..MaxSockets : ViewerWsError(s)
  \/ \E s \in 1..MaxSockets : ViewerWsClose(s)
  \/ \E p \in 0..MaxScrollTop(MaxViewerLogs) : handleScroll(p)
  \/ ResumeClicked
  \/ exportLogs
  \/ ViewerUnmount

SpecFollow == InitViewer /\ [][NextFollow]_vars

\* ---- claims about scrolling and export ----------------------------------
\* The user scrolls to a place that is not the bottom.
ScrolledAway ==
  \E p \in 0..MaxScrollTop(MaxViewerLogs) :
    handleScroll(p) /\ ~AtBottom(Len(filteredLogs), p)

\* C11: scrolling away from the bottom turns auto-follow off; once off it
\* stays off under every step (append, filter change, scroll event) other
\* than Resume; Resume turns it on and puts the viewport at the last
\* filtered entry.
C11_AutoFollowOffUntilResume ==
  [][/\ ScrolledAway => ~autoScroll'
     /\ (~autoScroll /\ viewer' /\ ~ResumeClicked) => ~autoScroll'
     /\ ResumeClicked
          => (autoScroll' /\ scrollTop' = MaxScrollTop(Len(filteredLogs')))]_vars

\* A step of the mounted viewer that appends to logs.
AppendStep == viewer /\ viewer' /\ Len(logs') = Len(logs) + 1 /\ IsPrefix(logs, logs')

\* C12: an append made while auto-follow is on leaves auto-follow on and the
\* viewport at the bottom of the filtered list (within the tolerance
\* handleScroll itself uses), so at its newest entry; an append made while
\* auto-follow is off leaves scrollTop where it was.
C12_AppendFollowsOnlyWhenOn ==
  [][AppendStep =>
       IF autoScroll
       THEN autoScroll' /\ AtBottom(Len(filteredLogs'), scrollTop')
       ELSE ~autoScroll' /\ scrollTop' = scrollTop]_vars

\* C12 witness: three entries were appended and displayed under auto-follow
\* and the viewport is at the last of them.
C12_Witness ==
  /\ viewer
  /\ autoScroll
  /\ Len(logs) = 3
  /\ Len(filteredLogs) = 3
  /\ scrollTop = MaxScrollTop(3)
  /\ scrollTop > 0

\* C12, the other case reached: entries are held and displayed while
\* auto-follow is off and the viewport is away from the bottom.
C12_OffReached ==
  /\ viewer
  /\ ~autoScroll
  /\ Len(filteredLogs) = 3
  /\ scrollTop = 12

\* The lines of a text: the pieces between line breaks (no line for an
\* empty text).
RECURSIVE SplitLines(_)
SplitLines(text) ==
  IF text = <<>> THEN <<>>
  ELSE IF \A i \in 1..Len(text) : text[i] # "\n" THEN <<text>>
  ELSE LET k == CHOOSE i \in 1..Len(text) :
                  text[i] = "\n" /\ \A j \in 1..(i - 1) : text[j] # "\n"
           rest == SubSeq(text, k + 1, Len(text))
       IN <<SubSeq(text, 1, k - 1)>> \o (IF rest = <<>> THEN <<<<>>>> ELSE SplitLines(rest))

UpperCaseLevels == {<<"info", "INFO">>, <<"warn", "WARN">>, <<"error", "ERROR">>,
                    <<"debug", "DEBUG">>}

\* line is "timestamp [LEVEL] [nodeId] message" for the entry, the node id
\* segment left out when the entry has no node id.
IsLineOf(line, log) ==
  \E pair \in UpperCaseLevels :
    /\ pair[1] = log.level
    /\ line = <<log.timestamp, " [", pair[2], "] ">>
              \o (IF log.node_id = None THEN <<>> ELSE <<"[">> \o log.node_id[1] \o <<"] ">>)
              \o log.message

\* C13: the exported file is named execution-<id>-logs.txt and holds one
\* line per entry of the filtered list, in order, each line being
\* "timestamp [LEVEL] [nodeId] message" of its entry (node id segment
\* omitted when absent); entries the filter hides are not in it.
C13_ExportOneLinePerFilteredEntry ==
  download # None =>
    LET lines == SplitLines(download[1].content)
    IN /\ download[1].download = <<"execution-", ViewerExecutionId, "-logs.txt">>
       /\ Len(lines) = Len(filteredLogs)
       /\ \A i \in 1..Len(lines) : IsLineOf(lines[i], filteredLogs[i])

\* Export under the same conditions when no displayed message has a line
\* break in it.
C13_HoldsForSingleLineMessages ==
  (download # None
   /\ \A i \in 1..Len(filteredLogs) :
        \A k \in 1..Len(filteredLogs[i].message) : filteredLogs[i].message[k] # "\n")
    => C13_ExportOneLinePerFilteredEntry

\* ---- claims about the graph builder's structural checks -----------------
\* C14: no two edges returned by parseWorkflowToFlow share an id.
C14_EdgeIdsUnique ==
  flowPc = "done" =>
    \A i, j \in 1..Len(flow.edges) :
      i # j => flow.edges[i].id # flow.edges[j].id

\* A depends_on entry of the input names an id no input node has.
HasDanglingDependency ==
  \E i \in 1..Len(nodes) : \E k \in 1..Len(nodes[i].depends_on) :
    nodes[i].depends_on[k] \notin IdsUsed(nodes)

\* C15: parseWorkflowToFlow does not return a graph for an input with a
\* depends_on entry that names no input node (it reports an error instead),
\* so every returned edge joins two input nodes.
C15_DanglingDependencyRejected ==
  flowPc = "done" =>
    /\ ~HasDanglingDependency
    /\ \A i \in 1..Len(flow.edges) :
         /\ flow.edges[i].source \in IdsUsed(nodes)
         /\ flow.edges[i].target \in IdsUsed(nodes)

\* Two nodes of the input list have the same id.
HasDuplicateNodeId ==
  \E i, j \in 1..Len(nodes) : i # j /\ nodes[i].id = nodes[j].id

\* C16: parseWorkflowToFlow does not return a graph for an input in which
\* two nodes share an id (it fails with a configuration error instead).
C16_DuplicateIdRejected ==
  flowPc = "done" => ~HasDuplicateNodeId

\* ======================================================================
\* Layout of acyclic workflows (lib/flowParser.ts, applyDagreLayout)
\* ======================================================================
\* Workflows of up to four nodes a, b, c, d with distinct ids, listed so
\* that every node depends only on nodes listed before it; depends_on lists
\* its ids in that order. Every acyclic dependency structure on up to four
\* nodes is among them, up to renaming.
LayoutIdOrder == <<(<<"a">>), (<<"b">>), (<<"c">>), (<<"d">>)>>

\* The ids at the positions in S, in order.
RECURSIVE IdsAt(_)
IdsAt(S) ==
  IF S = {} THEN <<>>
  ELSE LET k == CHOOSE i \in S : \A j \in S : i <= j
       IN <<LayoutIdOrder[k]>> \o IdsAt(S \ {k})

RECURSIVE AcyclicListsOfLen(_)
AcyclicListsOfLen(k) ==
  IF k = 0 THEN {<<>>}
  ELSE {Append(ns, WorkflowNodeOf(LayoutIdOrder[k], IdsAt(S))) :
          ns \in AcyclicListsOfLen(k - 1), S \in SUBSET (1..(k - 1))}

LayoutInputs == UNION {AcyclicListsOfLen(k) : k \in 0..Len(LayoutIdOrder)}

\* The nodeResults argument in these runs: absent, or a result for a, or
\* results for a and b.
LayoutResultMaps ==
  {[id \in D |-> NodeResultOf(id, st)] :
     D \in {{}, {<<"a">>}, {<<"a">>, <<"b">>}}, st \in {"running", "completed"}}

InitLayout ==
  /\ MergeIdle
  /\ HooksIdle
  /\ ViewerIdle
  /\ nodes \in LayoutInputs
  /\ nodeResultsArg \in LayoutResultMaps
  /\ g = EmptyGraph
  /\ flow = [nodes |-> <<>>, edges |-> <<>>]
  /\ flowPc = "input"

\* A plausible slip: edges that are animated are not handed to dagre.
FlowEdgesForDagreNotAnimated(fedges) ==
  SelectSeq(fedges, LAMBDA e : ~e.animated)

\* The edges applyDagreLayout hands to dagre: all of them.
FlowEdgesForDagre(fedges) == fedges

\* FlowCanvas calls parseWorkflowToFlow(workflowNodes, nodeResults) again:
\* in the same render (same arguments) or when nodeResults has changed.
\* dagre is deterministic: for the graph it was given before (same nodes
\* with the same sizes, same edges) it returns what it returned before.
parseAgain(results) ==
  /\ flowPc # "input"
  /\ LET flowNodes == [i \in 1..Len(nodes) |-> FlowNodeOf(nodes[i], results)]
         flowEdges == FlowEdges(nodes, results)
         dagreEdges == FlowEdgesForDagre(flowEdges)
         V == GraphNodes(flowNodes, dagreEdges)
     IN /\ IF g.labelled = LabelledNodes(flowNodes) /\ g.edges = SetEdges(dagreEdges)
           THEN g' = g
           ELSE \E r \in DagreRanks(V, SetEdges(dagreEdges)) :
                \E xs \in DagreXs(flowNodes, V, r) :
                  g' = LaidOut(flowNodes, dagreEdges, r, xs)
        /\ flow' = applyDagreLayout(flowNodes, flowEdges, g')
  /\ flowPc' = IF results = nodeResultsArg THEN "repeated" ELSE "updated"
  /\ nodeResultsArg' = results
  /\ UNCHANGED <<nodes, mergeVars, hookVars, viewerVars>>

NextLayout ==
  \/ parseWorkflowToFlow
  \/ \E results \in LayoutResultMaps : parseAgain(results)

SpecLayout == InitLayout /\ [][NextLayout]_vars

\* ---- claims about ranks ---------------------------------------------------
\* The input node with the given id (ids are distinct in these runs).
NodeWithId(id) == nodes[CHOOSE i \in 1..Len(nodes) : nodes[i].id = id]

\* Length of the longest dependency path from a root to the node.
RECURSIVE LongestPathRank(_)
LongestPathRank(id) ==
  LET deps == NodeWithId(id).depends_on
  IN IF deps = <<>> THEN 0
     ELSE LET ranks == {LongestPathRank(deps[k]) : k \in 1..Len(deps)}
          IN 1 + (CHOOSE m \in ranks : \A n \in ranks : n <= m)

DependsOn(id) == {NodeWithId(id).depends_on[k] : k \in 1..Len(NodeWithId(id).depends_on)}

\* a, b <- a, c <- a, d <- {b, c}
IsDiamond ==
  /\ Len(nodes) = 4
  /\ DependsOn(<<"a">>) = {}
  /\ DependsOn(<<"b">>) = {<<"a">>}
  /\ DependsOn(<<"c">>) = {<<"a">>}
  /\ DependsOn(<<"d">>) = {<<"b">>, <<"c">>}

\* C17: in the layout of an acyclic workflow every node's rank is the
\* length of the longest dependency path from a root to it (roots 0, others
\* 1 + the largest rank among their dependencies); for the diamond the ranks
\* are 0, 1, 1, 2, b and c have the same y and d's y is larger.
C17_RankIsLongestPath ==
  flowPc = "done" =>
    /\ \A i \in 1..Len(nodes) : g.rank[nodes[i].id] = LongestPathRank(nodes[i].id)
    /\ IsDiamond =>
         /\ FlowNodeY(<<"b">>) = FlowNodeY(<<"c">>)
         /\ FlowNodeY(<<"d">>) > FlowNodeY(<<"b">>)

\* The diamond on its own.
C17_DiamondAsClaimed ==
  (flowPc = "done" /\ IsDiamond) =>
    /\ g.rank = (<<"a">> :> 0) @@ (<<"b">> :> 1) @@ (<<"c">> :> 1) @@ (<<"d">> :> 2)
    /\ FlowNodeY(<<"b">>) = FlowNodeY(<<"c">>)
    /\ FlowNodeY(<<"d">>) > FlowNodeY(<<"b">>)

\* ---- claims about horizontal placement ------------------------------------
\* The boxes of the flow nodes at places i and j are at least a node width
\* apart horizontally.
BoxesApart(i, j) ==
  LET d == flow.nodes[i].position.x - flow.nodes[j].position.x
  IN (IF d < 0 THEN -d ELSE d) >= nodeWidth

\* C18: flow nodes on the same rank are at least one node width apart in x
\* (so their boxes do not overlap and their x differ); without edges every
\* node has rank 0 and all nodes have the same y.
C18_SameRankNoOverlap ==
  flowPc = "done" =>
    /\ \A i, j \in 1..Len(flow.nodes) :
         (i # j /\ g.rank[flow.nodes[i].id] = g.rank[flow.nodes[j].id])
           => BoxesApart(i, j)
    /\ flow.edges = <<>> =>
         \A i, j \in 1..Len(flow.nodes) :
           /\ g.rank[flow.nodes[i].id] = 0
           /\ flow.nodes[i].position.y = flow.nodes[j].position.y

\* The same for inputs whose node ids are distinct.
C18_HoldsForDistinctIds == HasDuplicateNodeId \/ C18_SameRankNoOverlap

\* ---- claims about repeated calls ------------------------------------------
Positions(f) == [i \in 1..Len(f.nodes) |-> <<f.nodes[i].id, f.nodes[i].position>>]

EdgeEnds(f) ==
  [i \in 1..Len(f.edges) |-> <<f.edges[i].id, f.edges[i].source, f.edges[i].target>>]

EntryField(id, field) ==
  IF id \in DOMAIN nodeResultsArg THEN nodeResultsArg[id][field] ELSE Undefined

CarriesNode(fnode, node) ==
  /\ fnode.id = node.id
  /\ fnode.data.label = node.id
  /\ fnode.data.nodeType = node.type
  /\ fnode.data.config = node.config
  /\ fnode.data.status = EntryField(node.id, "status")
  /\ fnode.data.duration_ms = EntryField(node.id, "duration_ms")
  /\ fnode.data.error = EntryField(node.id, "error")

\* C20: parseWorkflowToFlow returns one flow node per workflow node, in input
\* order, with id and label the node id, nodeType the node's type, the config
\* passed through, and status, duration and error those of the result map
\* entry of that id (undefined when absent); the empty list gives no nodes
\* and no edges.
C20_OneFlowNodePerWorkflowNode ==
  flowPc = "done" =>
    /\ Len(flow.nodes) = Len(nodes)
    /\ \A i \in 1..Len(nodes) : CarriesNode(flow.nodes[i], nodes[i])
    /\ (nodes = <<>> => flow.nodes = <<>> /\ flow.edges = <<>>)

\* C20 witness: two nodes were parsed, the first with a failed result, the
\* second, whose type maps to another React Flow type, without a result.
C20_Witness ==
  /\ flowPc = "done"
  /\ Len(nodes) = 2
  /\ nodes[1].id = <<"a">> /\ nodes[2].id = <<"b">>
  /\ DOMAIN nodeResultsArg = {<<"a">>}
  /\ flow.nodes[1].data.error = "boom"
  /\ flow.nodes[2].data.status = Undefined
  /\ flow.nodes[2].type # flow.nodes[2].data.nodeType

\* The empty list has been parsed.
C20_EmptyParsed == flowPc = "done" /\ nodes = <<>> /\ flow.nodes = <<>>

\* ======================================================================
\* Execution page (ExecutionDetailPage): the execution query, the workflow
\* query, the tabs, useLiveExecutionUpdates in the page and useLiveLogs in
\* the LiveLogViewer of the logs tab
\* ======================================================================
\* The route parameter id; execution.id is the same id.
PageExecutionId == ViewerExecutionId

TerminalStatuses == {"completed", "failed", "cancelled"}

\* How far an execution or a node has got: pending, running, finished.
Progress(status) ==
  IF status \in {Undefined, "pending"} THEN 0 ELSE IF status = "running" THEN 1 ELSE 2

NodeA(status) ==
  [node_id |-> "A", status |-> status,
   finished_at |-> IF status = "running" THEN Null ELSE "t1",
   error |-> IF status = "failed" THEN "boom" ELSE Null]

\* What GET /executions/:id answers in the course of an execution with one
\* node A: the execution's status and its node_executions.
PageSnapshots ==
  {[status |-> "pending", node_executions |-> <<>>],
   [status |-> "running", node_executions |-> <<>>],
   [status |-> "running", node_executions |-> <<NodeA("running")>>],
   [status |-> "running", node_executions |-> <<NodeA("completed")>>],
   [status |-> "completed", node_executions |-> <<NodeA("completed")>>],
   [status |-> "failed", node_executions |-> <<NodeA("failed")>>],
   [status |-> "cancelled", node_executions |-> <<>>]}

SnapshotProgress(execs) == IF execs = <<>> THEN 0 ELSE Progress(execs[1].status)

\* A later answer of the server: nothing has gone back, and a node that had
\* finished has the status it finished with.
FollowsSnapshot(status, execs, snap) ==
  /\ Progress(snap.status) >= Progress(status)
  /\ SnapshotProgress(snap.node_executions) >= SnapshotProgress(execs)
  /\ SnapshotProgress(execs) = 2 => snap.node_executions = execs

\* What the server streams for that execution: node A running, node A
\* completed, and a log line without a node execution.
PageMessages ==
  {WireMessage("object", "log", PageExecutionId, "t1", Some(d)) :
     d \in {PlainData, DataWith(NodeA("running")), DataWith(NodeA("completed"))}}

\* The server streams what happens as it happens and answers the poll from
\* the same execution: a record streamed for a node is not behind the one
\* streamed before, and stream and snapshot name the same final status.
StreamedInOrder(live, nodeExec) ==
  nodeExec.node_id \in DOMAIN live
    => Progress(nodeExec.status) >= Progress(live[nodeExec.node_id].status)

SameFinalStatus(live, execs) ==
  \A i \in 1..Len(execs) :
    (/\ execs[i].node_id \in DOMAIN live
     /\ Progress(execs[i].status) = 2
     /\ Progress(live[execs[i].node_id].status) = 2)
      => live[execs[i].node_id].status = execs[i].status

MaxPageSockets == 3  \* WebSockets created while the page is mounted
MaxPageLogs == 1     \* largest logIdCounter of the page's LiveLogViewer

\* A plausible slip: the hook is also subscribed while the execution waits.
LiveArgUnlessTerminal(status) ==
  IF status \in {"pending", "running"} THEN PageExecutionId ELSE Null

\* execution?.status === "running" ? (id ?? null) : null, and in the viewer
\* isRunning ? executionId : null with isRunning = execution.status ===
\* "running".
LiveArg(status) == IF status = "running" THEN PageExecutionId ELSE Null

\* What the page returns: the spinner while a query is loading, the error
\* alert when the execution query failed or has no data, else the detail.
PageView(loaded, err, wf) ==
  IF (~loaded /\ ~err) \/ wf = "loading" THEN "spinner"
  ELSE IF err \/ ~loaded THEN "error"
  ELSE "detail"

\* <LiveLogViewer> is rendered in the detail view on the logs tab.
ViewerShown(loaded, err, wf, tab) == PageView(loaded, err, wf) = "detail" /\ tab = "logs"

\* <FlowCanvas> is rendered in the detail view on the flow tab when the
\* workflow has nodes.
GraphShown(loaded, err, wf, tab) ==
  PageView(loaded, err, wf) = "detail" /\ tab = "flow" /\ wf = "loaded"

\* The effect of one hook run for argument e: cleanup of the previous run
\* (when there was one), then connect().
EffectOn(h, e, hadEffect, refs, socks) ==
  LET cleaned == IF hadEffect THEN Disconnect(refs[h], socks)
                 ELSE [ref |-> refs[h], sockets |-> socks]
      opened == Connect(h, e, TRUE, cleaned.ref, cleaned.sockets)
  IN [wsRef |-> [refs EXCEPT ![h] = opened.ref], sockets |-> opened.sockets]

\* The cleanup of a hook whose component unmounts; the handlers of its
\* sockets keep setters that no longer do anything.
EffectCleanup(h, refs, socks) ==
  LET cleaned == Disconnect(refs[h], socks)
  IN [wsRef |-> [refs EXCEPT ![h] = NoSocket],
      sockets |-> [i \in 1..Len(cleaned.sockets) |->
                     IF cleaned.sockets[i].hook = h
                     THEN [cleaned.sockets[i] EXCEPT !.attached = FALSE]
                     ELSE cleaned.sockets[i]]]

\* The page re-renders after execution, execStatus, execError, workflow or
\* activeTab changed (their new values are the primed variables): the
\* viewer is mounted, unmounted or re-rendered with the new isRunning, its
\* effect runs (children first), then the effect of the page's hook; the
\* nodeResults memo is recomputed.
PageCommit ==
  LET shown == ViewerShown(execution'.loaded, execError', workflow', activeTab')
      arg == LiveArg(execStatus')
      now == [wsRef |-> wsRef, sockets |-> sockets]
      afterLogs == IF viewer /\ ~shown THEN EffectCleanup("logs", wsRef, sockets)
                   ELSE IF ~viewer /\ shown THEN EffectOn("logs", arg, FALSE, wsRef, sockets)
                   ELSE IF shown /\ arg # executionId["logs"]
                        THEN EffectOn("logs", arg, TRUE, wsRef, sockets)
                   ELSE now
      afterUpdates == IF arg # executionId["updates"]
                      THEN EffectOn("updates", arg, TRUE, afterLogs.wsRef, afterLogs.sockets)
                      ELSE afterLogs
  IN /\ Len(afterUpdates.sockets) <= MaxPageSockets
     /\ wsRef' = afterUpdates.wsRef
     /\ sockets' = afterUpdates.sockets
     /\ executionId' = [h \in Hooks |-> IF h = "updates" \/ shown THEN arg ELSE Null]
     /\ mounted' = {"updates"} \cup (IF shown THEN {"logs"} ELSE {})
     /\ viewer' = shown
     /\ isConnected' = IF viewer = shown THEN isConnected
                       ELSE [isConnected EXCEPT !["logs"] = FALSE]
     /\ logs' = IF viewer = shown THEN logs ELSE <<>>
     /\ logIdCounter' = IF viewer = shown THEN logIdCounter ELSE 0
     /\ UNCHANGED <<nodeResults, levelFilter, searchQuery>>
     /\ IF viewer /\ shown THEN Render
        ELSE /\ filteredLogs' = <<>>
             /\ autoScroll' = TRUE
             /\ scrollTop' = 0
             /\ download' = None
     /\ liveResults' = nodeResults
     /\ pageNodeResults' = MergeNodeResults(execution', nodeResults)
     /\ UNCHANGED flowVars

\* First render of the page: no data yet, the hook is called with null.
InitPage ==
  /\ FlowIdle
  /\ ViewerIdle
  /\ PageIdle
  /\ execution = [loaded |-> FALSE, node_executions |-> <<>>]
  /\ liveResults = EmptyMap
  /\ pageNodeResults = EmptyMap
  /\ mounted = {"updates"}
  /\ executionId = [h \in Hooks |-> Null]
  /\ wsRef = [h \in Hooks |-> NoSocket]
  /\ isConnected = [h \in Hooks |-> FALSE]
  /\ nodeResults = EmptyMap
  /\ logs = <<>>
  /\ logIdCounter = 0
  /\ sockets = <<>>

\* The execution query is fetched: at first, every 2 s while the data says
\* pending or running (refetchInterval), and again after a failure.
ExecutionQueryActive == execStatus \notin TerminalStatuses

\* The execution query resolves with a snapshot that is not behind the one
\* held. The first data enables the workflow query.
PageExecutionFetched(snap) ==
  /\ ExecutionQueryActive
  /\ FollowsSnapshot(execStatus, execution.node_executions, snap)
  /\ SameFinalStatus(nodeResults, snap.node_executions)
  /\ execution' = [loaded |-> TRUE, node_executions |-> snap.node_executions]
  /\ execStatus' = snap.status
  /\ execError' = FALSE
  /\ <<execution', execStatus', execError'>> # <<execution, execStatus, execError>>
  /\ workflow' = IF workflow = "disabled" THEN "loading" ELSE workflow
  /\ UNCHANGED activeTab
  /\ PageCommit

\* The execution query fails; data it already had is kept.
PageExecutionFetchFailed ==
  /\ ExecutionQueryActive
  /\ ~execError
  /\ execError' = TRUE
  /\ UNCHANGED <<execution, execStatus, workflow, activeTab>>
  /\ PageCommit

\* The workflow query resolves or fails.
WorkflowFetched(ok) ==
  /\ workflow = "loading"
  /\ workflow' = IF ok THEN "loaded" ELSE "failed"
  /\ UNCHANGED <<execution, execStatus, execError, activeTab>>
  /\ PageCommit

\* setActiveTab(value) from the tabs of the detail view.
setActiveTab(tab) ==
  /\ PageView(execution.loaded, execError, workflow) = "detail"
  /\ tab # activeTab
  /\ activeTab' = tab
  /\ UNCHANGED <<execution, execStatus, execError, workflow>>
  /\ PageCommit

\* The render that follows a WebSocket handler: the page's memo and, when
\* the viewer is mounted, the viewer's render.
AfterHandler ==
  /\ liveResults' = nodeResults'
  /\ pageNodeResults' = MergeNodeResults(execution, nodeResults')
  /\ UNCHANGED <<execution, pageVars, flowVars, viewer, levelFilter, searchQuery>>
  /\ IF viewer THEN Render
     ELSE UNCHANGED <<filteredLogs, autoScroll, scrollTop, download>>

PageWsOpen(s) == OnOpen(s) /\ AfterHandler

PageWsMessage(s, m) ==
  /\ m.data[1].node_execution # None =>
       /\ StreamedInOrder(nodeResults, m.data[1].node_execution[1])
       /\ SameFinalStatus(Put(EmptyMap, "A", m.data[1].node_execution[1]),
                          execution.node_executions)
  /\ OnMessage(s, m, MaxPageLogs)
  /\ AfterHandler

PageWsError(s) == OnError(s) /\ AfterHandler

PageWsClose(s) == OnClose(s) /\ AfterHandler

NextPage ==
  \/ \E snap \in PageSnapshots : PageExecutionFetched(snap)
  \/ PageExecutionFetchFailed
  \/ \E ok \in BOOLEAN : WorkflowFetched(ok)
  \/ \E tab \in {"flow", "logs"} : setActiveTab(tab)
  \/ \E s \in 1..MaxPageSockets : PageWsOpen(s)
  \/ \E s \in 1..MaxPageSockets, m \in PageMessages : PageWsMessage(s, m)
  \/ \E s \in 1..MaxPageSockets : PageWsError(s)
  \/ \E s \in 1..MaxPageSockets : PageWsClose(s)

SpecPage == InitPage /\ [][NextPage]_vars

\* The same with progress: polling, the network and the browser's event
\* loop do not stop, so a step that stays possible is taken.
SpecPageLive == SpecPage /\ WF_vars(NextPage)

\* ---- claims about the page's connections --------------------------------
IsOpen(s) == sockets[s].readyState = "OPEN"

\* C21: no two open transports exist for the same execution id.
C21_OneOpenTransportPerExecution ==
  \A s, t \in 1..Len(sockets) :
    (s # t /\ IsOpen(s) /\ IsOpen(t)) => sockets[s].url # sockets[t].url

\* Each hook on its own never has two open transports.
C21_HoldsPerHook ==
  \A s, t \in 1..Len(sockets) :
    (s # t /\ IsOpen(s) /\ IsOpen(t)) => sockets[s].hook # sockets[t].hook

\* C22: a live connection exists only while the fetched execution status is
\* running: otherwise both hooks have been given null and hold no socket,
\* no socket has been created before the execution ran, and close() has
\* been called on every socket created while it ran.
C22_ConnectedOnlyWhileRunning ==
  execStatus # "running" =>
    /\ \A h \in Hooks : executionId[h] = Null /\ wsRef[h] = NoSocket
    /\ Progress(execStatus) = 0 => sockets = <<>>
    /\ \A s \in 1..Len(sockets) :
         /\ sockets[s].closeCalls = 1
         /\ sockets[s].readyState \notin {"CONNECTING", "OPEN"}

\* C22 witness: the execution was running with the Logs tab open, both hooks
\* had a socket, and the fetch of a terminal status made each hook close
\* its socket; the viewer is still mounted.
C22_Witness ==
  /\ execStatus \in TerminalStatuses
  /\ viewer
  /\ Len(sockets) = 2
  /\ {sockets[1].hook, sockets[2].hook} = Hooks
  /\ \A s \in 1..2 : sockets[s].readyState = "CLOSING" /\ sockets[s].attached

\* ---- claims about reconnection, demultiplexing and log ids ---------------
\* The socket the hook holds has failed or been closed by the server.
CurrentTransportDown(h) ==
  /\ wsRef[h] # NoSocket
  /\ sockets[wsRef[h]].readyState \in {"ERRORED", "CLOSED"}

SocketsOf(h, socks) == {s \in 1..Len(socks) : socks[s].hook = h}

\* C23: once the transport of a subscription has closed or failed,
\* isConnected is false for as long as the hook holds that socket, and as
\* long as a mounted hook keeps its execution id no socket is created for it.
C23_SingleAttemptPerSubscription ==
  [][\A h \in Hooks :
       /\ (h \in mounted' /\ CurrentTransportDown(h)') => ~isConnected'[h]
       /\ (h \in mounted /\ h \in mounted' /\ executionId'[h] = executionId[h])
            => SocketsOf(h, sockets') = SocketsOf(h, sockets)]_vars

\* C23 witness: the only socket of useLiveExecutionUpdates delivered a node
\* execution and was then closed by the server; the hook still holds it,
\* shows not connected, and no second socket exists.
C23_Witness ==
  /\ "updates" \in mounted
  /\ Len(sockets) = 1
  /\ wsRef["updates"] = 1
  /\ sockets[1].readyState = "CLOSED"
  /\ sockets[1].closeCalls = 0
  /\ nodeResults # EmptyMap
  /\ ~isConnected["updates"]

\* ---- claims about the page's error state ---------------------------------
\* C24: when the execution fetch has failed, the workflow graph is still
\* rendered (on the flow tab, the workflow being known).
C24_GraphRenderedOnFetchFailure ==
  (execError /\ activeTab = "flow" /\ workflow = "loaded")
    => GraphShown(execution.loaded, execError, workflow, activeTab)

\* The failure itself is surfaced: the error alert is what the page shows
\* once no query is loading.
C24_ErrorSurfaced ==
  (execError /\ workflow # "loading")
    => PageView(execution.loaded, execError, workflow) = "error"

\* ---- claims about the live node-result map -------------------------------
\* A log envelope with an embedded node execution record.
CarriesRecord(m) ==
  /\ m.text = "object"
  /\ m.type = "log"
  /\ m.data # None
  /\ m.data[1].node_execution # None

RecordOf(m) == m.data[1].node_execution[1]

\* C25: a message handled by useLiveExecutionUpdates changes nodeResults in
\* one step: a log envelope with an embedded record makes that record the
\* entry of its node id and keeps every other entry, and any other message
\* leaves the map as it was.
C25_RecordReplacesOneEntry ==
  [][\A s \in 1..MaxSockets : \A m \in HookMessages :
       (OnMessage(s, m, MaxLogId) /\ sockets[s].hook = "updates" /\ sockets[s].attached)
         => IF CarriesRecord(m)
            THEN /\ DOMAIN nodeResults' = DOMAIN nodeResults \cup {RecordOf(m).node_id}
                 /\ nodeResults'[RecordOf(m).node_id] = RecordOf(m)
                 /\ \A id \in DOMAIN nodeResults \ {RecordOf(m).node_id} :
                      nodeResults'[id] = nodeResults[id]
            ELSE nodeResults' = nodeResults]_vars

\* C25 witness: records of two nodes have been received, the later one
\* leaving the earlier one in place.
C25_Witness ==
  /\ "updates" \in mounted
  /\ DOMAIN nodeResults = {"A", "B"}
  /\ nodeResults["A"].status = "completed"
  /\ nodeResults["B"].status = "failed"
  /\ nodeResults["B"].error = "boom"

\* The number in the id `log-${n}` of the entry at position i.
LogNumber(i) == logs[i].id[2]

\* C26: the ids in the log sequence increase strictly with position (so
\* they are pairwise distinct), and every id is below the counter the next
\* id is taken from.
C26_LogIdsIncrease ==
  /\ \A i, j \in 1..Len(logs) : i < j => LogNumber(i) < LogNumber(j)
  /\ \A i \in 1..Len(logs) : LogNumber(i) < logIdCounter

\* C26 witness: an entry of execution e1 is followed, after the execution id
\* changed, by an entry of e2 with the next id.
C26_Witness ==
  /\ Len(logs) = 2
  /\ logs[1].execution_id = "e1"
  /\ logs[2].execution_id = "e2"
  /\ LogNumber(1) = 0
  /\ LogNumber(2) = 1

\* ---- claims about the data of the subscribed execution -------------------
\* When the execution id a mounted hook is subscribed to changes (to another
\* id or to null), the node results and log entries received so far are no
\* longer exposed.
DataDroppedOnIdChange ==
  [][\A h \in Hooks :
       (h \in mounted /\ executionId'[h] # executionId[h])
         => /\ h = "updates" => nodeResults' = EmptyMap
            /\ h = "logs" => logs' = <<>>]_vars

\* C27: all live data exposed belongs to the subscribed execution. The
\* least this asks of the logs: while the hook is subscribed to an
\* execution, every entry that names an execution names that one.
C27_LogsOfSubscribedExecution ==
  executionId["logs"] # Null =>
    \A i \in 1..Len(logs) :
      logs[i].execution_id \in ExecIds => logs[i].execution_id = executionId["logs"]

\* ---- claims about the overlay over time ----------------------------------
\* C28: once the merged map shows a node as completed, failed or cancelled,
\* no live envelope and no refetch changes the status it shows.
C28_TerminalStatusFinal ==
  [][\A id \in DOMAIN pageNodeResults :
       pageNodeResults[id].status \in TerminalStatuses
         => /\ id \in DOMAIN pageNodeResults'
            /\ pageNodeResults'[id].status = pageNodeResults[id].status]_vars

\* ---- claims about the connected indicator --------------------------------
\* C29: isConnected reflects the current transport: while the socket a
\* mounted hook holds is open, isConnected is true, whatever events of an
\* earlier socket of that hook arrive.
C29_ConnectedWhileCurrentOpen ==
  \A h \in mounted :
    (wsRef[h] # NoSocket /\ sockets[wsRef[h]].readyState = "OPEN") => isConnected[h]

\* ---- claims about convergence ---------------------------------------------
\* The polled snapshot says the execution has finished.
FinalSnapshotFetched == execStatus \in TerminalStatuses

\* Every node of the snapshot is displayed with its status in the snapshot.
OverlayShowsSnapshot ==
  \A i \in 1..Len(execution.node_executions) :
    LET rec == execution.node_executions[i]
    IN /\ rec.node_id \in DOMAIN pageNodeResults
       /\ pageNodeResults[rec.node_id].status = rec.status

\* C30: once the final snapshot has been fetched, the overlay eventually
\* displays every node with its status in that snapshot.
C30_OverlayConverges == FinalSnapshotFetched ~> OverlayShowsSnapshot

====
